---- MODULE Spec2Model ----
(***************************************************************************)
(* Model of the diffuse-pilot task queue (src/services/queue_manager.py):  *)
(* the QueueManager with its asyncio.PriorityQueue, the start()/stop()     *)
(* coroutines, the worker loop and the three per-request pipelines, over   *)
(* the persisted GenerationRequest / GenerationMetadata / GeneratedImage   *)
(* rows.  Every action is one run of a coroutine between two suspension    *)
(* points (await), which is the unit asyncio interleaves.                  *)
(***************************************************************************)
EXTENDS Integers, Sequences, FiniteSets, TLC

----------------------------------------------------------------------------
(* Bounds of the model *)

NumRequests == 2
MaxPriority == 1
MaxEnqueues == 2
MaxStarts == 2
MaxImages == 2
\* the life-cycle specification (Spec) lets start() and stop() calls overlap
\* with everything else and uses a smaller environment of its own
NumLifecycleRequests == 1
MaxLifecycleEnqueues == 1
\* the request ids of the callers that pass priorities (SpecPriority)
NumPriorityRequests == 1

RequestIds == 1..NumRequests
Priorities == 0..MaxPriority
CallIds == 1..MaxStarts
LifecycleIds == 1..NumLifecycleRequests
PriorityIds == 1..NumPriorityRequests
\* the priority argument when the caller passes none (priority: int = 0)
DefaultPriority == 0

----------------------------------------------------------------------------
(* RequestStatus and the values of the rows *)

NOROW == "norow"
PENDING == "pending"
PROCESSING == "processing"
COMPLETED == "completed"
FAILED == "failed"

RequestStatus == {PENDING, PROCESSING, COMPLETED, FAILED}

NULL == "null"
\* the texts of the exceptions, by what the properties tell apart: a text with
\* a timeout indicator and any other text
TimeoutMsg == "timeout"
ErrorMsg == "error"
Messages == {TimeoutMsg, ErrorMsg}

----------------------------------------------------------------------------
(* QueuedTask: dataclass(order=True) compares the field tuple              *)
(* (priority, request_id, use_gemini, use_xai).  supplied is not a field   *)
(* of the dataclass: it records the priority argument the caller passed    *)
(* (0 for a task put by the recovery pass).                                *)

QueuedTask(p, r, g, x, s) ==
    [priority |-> p, request_id |-> r, use_gemini |-> g, use_xai |-> x, supplied |-> s]

NoTask == QueuedTask(0, 0, FALSE, FALSE, 0)

BoolLess(a, b) == (~a) /\ b

TaskLess(a, b) ==
    \/ a.priority < b.priority
    \/ a.priority = b.priority /\ a.request_id < b.request_id
    \/ a.priority = b.priority /\ a.request_id = b.request_id
         /\ BoolLess(a.use_gemini, b.use_gemini)
    \/ a.priority = b.priority /\ a.request_id = b.request_id
         /\ a.use_gemini = b.use_gemini /\ BoolLess(a.use_xai, b.use_xai)

TaskKeyEq(a, b) == ~TaskLess(a, b) /\ ~TaskLess(b, a)

\* index of the task PriorityQueue.get returns: a least task of the heap
\* (of several equal tasks, which are indistinguishable, the oldest)
PopIdx(q) ==
    CHOOSE i \in 1..Len(q) :
        \A j \in 1..Len(q) :
            /\ ~TaskLess(q[j], q[i])
            /\ (TaskKeyEq(q[j], q[i]) => i <= j)

Remove(q, i) == SubSeq(q, 1, i - 1) \o SubSeq(q, i + 1, Len(q))

Pipeline(task) ==
    IF task.use_gemini THEN "gemini"
    ELSE IF task.use_xai THEN "xai"
    ELSE "sd"

----------------------------------------------------------------------------
VARIABLES
    status,          \* GenerationRequest.status per request id (NOROW: no row)
    error_message,   \* GenerationRequest.error_message per request id
    metadata,        \* number of GenerationMetadata rows per request id
    images,          \* number of GeneratedImage rows per request id
    queue,           \* self.queue: the waiting tasks, in the order they were put
    unfinished,      \* the queue's count of unfinished tasks (put minus task_done)
    is_running,      \* self.is_running
    worker_task,     \* self.worker_task: id of the task created last, 0 for None
    clients_closed,  \* the clients stop() has closed (they are never reopened)
    worker,          \* the worker tasks ever created, by the start() that made them
    startCall,       \* the start() coroutines
    stopCall,        \* the stop() coroutines
    starts,          \* number of start() calls that passed the is_running test
    enqueues,        \* number of enqueue calls made
    settings_rows,   \* the rows of the global_settings table, by row number
    settings_load,   \* the settings load of a default-mode pipeline
    settings_call,   \* the last call of the settings service and its outcome
    resolution       \* a call of PromptAgent._apply_defaults

queueVars == <<status, error_message, metadata, images, queue, unfinished,
               is_running, worker_task, clients_closed, worker, startCall,
               stopCall, starts, enqueues>>
resolverVars == <<settings_rows, settings_load, settings_call, resolution>>

vars == <<queueVars, resolverVars>>

dbVars == <<status, error_message, metadata, images>>
callVars == <<startCall, stopCall, starts>>

\* GenerationRequest.original_instruction of request r
original_instruction(r) == <<"instruction", r>>

\* the GenerationMetadata object a pipeline builds (its local "metadata")
NoMetadata == [prompt |-> NULL]

NoWorker == [pc |-> "none", task |-> NoTask, dirty |-> FALSE, saved |-> 0,
             err |-> NULL, cancel |-> FALSE, meta |-> NoMetadata]

NoSnap == [r \in RequestIds |-> NOROW]

\* no settings row exists, no settings load and no resolution is under way
NoLoad == [pc |-> "none"]
NoCall == [op |-> "none", calls |-> 0]
NoResolution == [pc |-> "none"]

ResolverIdle ==
    /\ settings_rows = <<>>
    /\ settings_load = NoLoad
    /\ settings_call = NoCall
    /\ resolution = NoResolution

Init ==
    /\ ResolverIdle
    /\ status = [r \in RequestIds |-> NOROW]
    /\ error_message = [r \in RequestIds |-> NULL]
    /\ metadata = [r \in RequestIds |-> 0]
    /\ images = [r \in RequestIds |-> 0]
    /\ queue = <<>>
    /\ unfinished = 0
    /\ is_running = FALSE
    /\ worker_task = 0
    /\ clients_closed = {}
    /\ worker = [w \in CallIds |-> NoWorker]
    /\ startCall = [s \in CallIds |-> [pc |-> "none", snap |-> NoSnap]]
    /\ stopCall = [s \in CallIds |-> [pc |-> "none", target |-> 0]]
    /\ starts = 0
    /\ enqueues = 0

----------------------------------------------------------------------------
(* Admission (discord_bot.py): the row is committed, then a task enqueued  *)

CreateRequest(r) ==
    /\ status[r] = NOROW
    /\ status' = [status EXCEPT ![r] = PENDING]
    /\ UNCHANGED resolverVars
    /\ UNCHANGED <<error_message, metadata, images, queue, unfinished, is_running,
                   worker_task, clients_closed, worker, startCall, stopCall,
                   starts, enqueues>>

Put(task) ==
    /\ enqueues < MaxEnqueues
    /\ queue' = Append(queue, task)
    /\ unfinished' = unfinished + 1
    /\ enqueues' = enqueues + 1
    /\ UNCHANGED resolverVars
    /\ UNCHANGED <<dbVars, is_running, worker_task, clients_closed, worker,
                   callVars>>

\* an enqueue that does not negate the priority
enqueue_generation_NotNegated(r, p) == Put(QueuedTask(p, r, FALSE, FALSE, p))

enqueue_generation(r, p) == Put(QueuedTask(-p, r, FALSE, FALSE, p))

enqueue_gemini_generation(r, p) == Put(QueuedTask(-p, r, TRUE, FALSE, p))

enqueue_xai_generation(r, p) == Put(QueuedTask(-p, r, FALSE, TRUE, p))

----------------------------------------------------------------------------
(* start(), _restore_pending_requests() and stop()                         *)

\* a recovery SELECT that leaves the PENDING rows out
RestoreFilter_OnlyProcessing == {PROCESSING}

\* status.in_([PENDING, PROCESSING]) of the recovery SELECT
RestoreFilter == {PENDING, PROCESSING}

\* rows in the order a SELECT without ORDER BY may return them
RECURSIVE Orderings(_)
Orderings(S) ==
    IF S = {} THEN {<<>>}
    ELSE UNION {{<<r>> \o o : o \in Orderings(S \ {r})} : r \in S}

RestoreTasks(order) ==
    [i \in 1..Len(order) |-> QueuedTask(0, order[i], FALSE, FALSE, 0)]

\* asyncio.create_task(self._worker_loop()) at the end of start()
CreateWorker(s) ==
    /\ worker' = [worker EXCEPT ![s] = [NoWorker EXCEPT !.pc = "created"]]
    /\ worker_task' = s

\* a start() without the is_running test
StartBegin_NoRunningTest ==
    /\ starts < MaxStarts
    /\ is_running' = TRUE
    /\ starts' = starts + 1
    /\ startCall' = [startCall EXCEPT ![starts + 1].pc = "select"]
    /\ UNCHANGED resolverVars
    /\ UNCHANGED <<dbVars, queue, unfinished, worker_task, clients_closed,
                   worker, stopCall, enqueues>>

\* start(): the is_running test, is_running = True, up to the first await
StartBegin ==
    /\ ~is_running
    /\ starts < MaxStarts
    /\ is_running' = TRUE
    /\ starts' = starts + 1
    /\ startCall' = [startCall EXCEPT ![starts + 1].pc = "select"]
    /\ UNCHANGED resolverVars
    /\ UNCHANGED <<dbVars, queue, unfinished, worker_task, clients_closed,
                   worker, stopCall, enqueues>>

\* the SELECT returns: every loaded row is set to PENDING in the session and
\* one task per row is put; then the commit is awaited, or, with no row,
\* the worker is created at once
RestoreSelect(s) ==
    /\ startCall[s].pc = "select"
    /\ LET pending == {r \in RequestIds : status[r] \in RestoreFilter}
       IN \E order \in Orderings(pending) :
            /\ queue' = queue \o RestoreTasks(order)
            /\ unfinished' = unfinished + Len(order)
            /\ IF pending # {}
               THEN /\ startCall' = [startCall EXCEPT ![s] =
                          [pc |-> "commit",
                           snap |-> [r \in RequestIds |->
                                       IF r \in pending THEN status[r] ELSE NOROW]]]
                    /\ UNCHANGED <<worker, worker_task>>
               ELSE /\ startCall' = [startCall EXCEPT ![s].pc = "done"]
                    /\ CreateWorker(s)
    /\ UNCHANGED resolverVars
    /\ UNCHANGED <<dbVars, is_running, clients_closed, stopCall, starts,
                   enqueues>>

\* the commit of the recovery pass: an UPDATE for every row whose loaded
\* status differs from PENDING; then the worker is created
RestoreCommit(s) ==
    /\ startCall[s].pc = "commit"
    /\ status' = [r \in RequestIds |->
                    IF startCall[s].snap[r] = PROCESSING THEN PENDING ELSE status[r]]
    /\ startCall' = [startCall EXCEPT ![s] = [pc |-> "done", snap |-> NoSnap]]
    /\ CreateWorker(s)
    /\ UNCHANGED resolverVars
    /\ UNCHANGED <<error_message, metadata, images, queue, unfinished, is_running,
                   clients_closed, stopCall, starts, enqueues>>

\* a database call of the recovery pass raises: start() raises after
\* is_running = True and before the worker is created
RestoreRaise(s) ==
    /\ startCall[s].pc \in {"select", "commit"}
    /\ startCall' = [startCall EXCEPT ![s] = [pc |-> "raised", snap |-> NoSnap]]
    /\ UNCHANGED resolverVars
    /\ UNCHANGED <<dbVars, queue, unfinished, is_running, worker_task,
                   clients_closed, worker, stopCall, starts, enqueues>>

WorkerDone(w) == w = 0 \/ worker[w].pc = "ended"

\* a stop() that awaits the worker task without cancelling it
StopBegin_NoCancel ==
    /\ is_running
    /\ is_running' = FALSE
    /\ clients_closed' = IF WorkerDone(worker_task)
                         THEN clients_closed \cup {"prompt_agent"}
                         ELSE clients_closed
    /\ stopCall' = [stopCall EXCEPT ![starts] =
                      [pc |-> IF WorkerDone(worker_task) THEN "close" ELSE "await",
                       target |-> worker_task]]
    /\ UNCHANGED resolverVars
    /\ UNCHANGED <<dbVars, queue, unfinished, worker_task, worker, startCall,
                   starts, enqueues>>

\* stop(): the is_running test, is_running = False, worker_task.cancel(),
\* up to "await self.worker_task"; with no worker task, or one that is
\* done, nothing suspends before prompt_agent.close() marks its client
\* closed
StopBegin ==
    /\ is_running
    /\ is_running' = FALSE
    /\ worker' = IF WorkerDone(worker_task) THEN worker
                 ELSE [worker EXCEPT ![worker_task].cancel = TRUE]
    /\ clients_closed' = IF WorkerDone(worker_task)
                         THEN clients_closed \cup {"prompt_agent"}
                         ELSE clients_closed
    /\ stopCall' = [stopCall EXCEPT ![starts] =
                      [pc |-> IF WorkerDone(worker_task) THEN "close" ELSE "await",
                       target |-> worker_task]]
    /\ UNCHANGED resolverVars
    /\ UNCHANGED <<dbVars, queue, unfinished, worker_task, startCall, starts,
                   enqueues>>

\* "await self.worker_task" returns once the cancelled task has ended;
\* prompt_agent.close() marks its client closed
StopAwait(k) ==
    /\ stopCall[k].pc = "await"
    /\ WorkerDone(stopCall[k].target)
    /\ clients_closed' = clients_closed \cup {"prompt_agent"}
    /\ stopCall' = [stopCall EXCEPT ![k].pc = "close"]
    /\ UNCHANGED resolverVars
    /\ UNCHANGED <<dbVars, queue, unfinished, is_running, worker_task,
                   worker, startCall, starts, enqueues>>

\* prompt_agent.close() has returned: sd_client.close()
StopClose(k) ==
    /\ stopCall[k].pc = "close"
    /\ clients_closed' = clients_closed \cup {"sd_client"}
    /\ stopCall' = [stopCall EXCEPT ![k] = [pc |-> "done", target |-> 0]]
    /\ UNCHANGED resolverVars
    /\ UNCHANGED <<dbVars, queue, unfinished, is_running, worker_task,
                   worker, startCall, starts, enqueues>>

----------------------------------------------------------------------------
(* _worker_loop: the worker tasks                                          *)

ProcessingPcs == {"get_request", "commit_processing", "llm",
                  "commit_metadata", "provider", "commit_images",
                  "commit_completed", "commit_failed"}

Live(w) == worker[w].pc \notin {"none", "ended"}

Runs(w) == Live(w) /\ ~worker[w].cancel

Rid(w) == worker[w].task.request_id

Mode(w) == Pipeline(worker[w].task)

\* "while self.is_running:" and "await self.queue.get()", reached without a
\* suspension from the creation of the task, from task_done() and from the
\* end of the sleep: leave the loop, wait on the empty queue, or pop the
\* least task and run its pipeline up to the SELECT of _get_request
LoopTop(w) ==
    IF ~is_running
    THEN /\ worker' = [worker EXCEPT ![w] = [NoWorker EXCEPT !.pc = "ended"]]
         /\ queue' = queue
    ELSE IF queue = <<>>
    THEN /\ worker' = [worker EXCEPT ![w] = [NoWorker EXCEPT !.pc = "waiting"]]
         /\ queue' = queue
    ELSE /\ worker' = [worker EXCEPT ![w] =
               [NoWorker EXCEPT !.pc = "get_request", !.task = queue[PopIdx(queue)]]]
         /\ queue' = Remove(queue, PopIdx(queue))

\* the first step of a created task, and the wake-up of queue.get()
WorkerLoop(w) ==
    /\ Runs(w)
    /\ \/ worker[w].pc = "created"
       \/ worker[w].pc = "waiting" /\ queue # <<>>
    /\ LoopTop(w)
    /\ UNCHANGED resolverVars
    /\ UNCHANGED <<dbVars, unfinished, is_running, worker_task, clients_closed,
                   callVars, enqueues>>

\* a loop that ends on the first exception instead of sleeping
ToSleep_EndsLoop(w, msg) ==
    worker' = [worker EXCEPT ![w] = [NoWorker EXCEPT !.pc = "ended"]]

\* an exception reaches "except Exception" of the loop: the sleep begins
ToSleep(w, msg) ==
    worker' = [worker EXCEPT ![w].pc = "sleep", ![w].err = msg, ![w].saved = 0,
                             ![w].dirty = FALSE]

\* an exception inside the try block of a pipeline: the handler sets
\* FAILED and error_message in the session and awaits its commit; n is the
\* number of GeneratedImage objects the session still holds
ToHandler(w, msg, n) ==
    worker' = [worker EXCEPT ![w].pc = "commit_failed", ![w].err = msg,
                             ![w].saved = n, ![w].dirty = FALSE]

Goto(w, pc) == worker' = [worker EXCEPT ![w].pc = pc, ![w].dirty = FALSE]

\* a Gemini / xAI metadata object with the SD defaults in its numeric fields
DirectMetadata_SdDefaults(r, model, sampler) ==
    [prompt |-> original_instruction(r), negative_prompt |-> "",
     model_name |-> model, steps |-> 20, cfg_scale |-> 7, sampler |-> sampler,
     scheduler |-> NULL, seed |-> -1, width |-> 512, height |-> 512]

\* GenerationMetadata(...) of the Gemini and xAI pipelines
DirectMetadata(r, model, sampler) ==
    [prompt |-> original_instruction(r), negative_prompt |-> "",
     model_name |-> model, steps |-> 0, cfg_scale |-> 0, sampler |-> sampler,
     scheduler |-> NULL, seed |-> -1, width |-> 0, height |-> 0]

\* GenerationMetadata(...) of the pipeline of w: in the SD pipeline the
\* fields are those of the prompt result
NewMetadata(w) ==
    IF Mode(w) = "gemini"
    THEN DirectMetadata(Rid(w), "gemini-3-pro-image-preview", "Gemini")
    ELSE IF Mode(w) = "xai"
    THEN DirectMetadata(Rid(w), "grok-2-image", "xAI")
    ELSE [prompt |-> <<"prompt_result", Rid(w)>>]

\* the metadata object is built and added to the session; its commit begins
ToCommitMetadata(w) ==
    worker' = [worker EXCEPT ![w].pc = "commit_metadata", ![w].dirty = FALSE,
                             ![w].meta = NewMetadata(w)]

\* a pipeline whose missing row is raised inside the try block, so that the
\* handler of the pipeline runs
GetRequest_InsideTry(w) ==
    /\ Runs(w)
    /\ worker[w].pc = "get_request"
    /\ \/ ToSleep(w, ErrorMsg)
       \/ /\ status[Rid(w)] = NOROW
          /\ ToHandler(w, ErrorMsg, 0)
       \/ /\ status[Rid(w)] # NOROW
          /\ worker' = [worker EXCEPT ![w].pc = "commit_processing",
                                      ![w].dirty = (status[Rid(w)] # PROCESSING)]
    /\ UNCHANGED resolverVars
    /\ UNCHANGED <<dbVars, queue, unfinished, is_running, worker_task,
                   clients_closed, callVars, enqueues>>

\* _get_request returns, or its SELECT raises; no row raises DatabaseError;
\* both before the try block, so that no handler of the pipeline runs
GetRequest(w) ==
    /\ Runs(w)
    /\ worker[w].pc = "get_request"
    /\ \/ ToSleep(w, ErrorMsg)
       \/ /\ status[Rid(w)] = NOROW
          /\ ToSleep(w, ErrorMsg)
       \/ /\ status[Rid(w)] # NOROW
          /\ worker' = [worker EXCEPT ![w].pc = "commit_processing",
                                      ![w].dirty = (status[Rid(w)] # PROCESSING)]
    /\ UNCHANGED resolverVars
    /\ UNCHANGED <<dbVars, queue, unfinished, is_running, worker_task,
                   clients_closed, callVars, enqueues>>

\* request.status = PROCESSING; commit (an UPDATE if the loaded status
\* was another one), or the commit raises
CommitProcessing(w) ==
    /\ Runs(w)
    /\ worker[w].pc = "commit_processing"
    /\ \/ /\ status' = IF worker[w].dirty
                       THEN [status EXCEPT ![Rid(w)] = PROCESSING]
                       ELSE status
          /\ Goto(w, IF Mode(w) = "sd" THEN "llm" ELSE "provider")
       \/ /\ status' = status
          /\ ToHandler(w, ErrorMsg, 0)
    /\ UNCHANGED resolverVars
    /\ UNCHANGED <<error_message, metadata, images, queue, unfinished, is_running,
                   worker_task, clients_closed, callVars, enqueues>>

\* SettingsService.get_settings for the user row and the guild row, then
\* prompt_agent.generate_prompt: returns, or raises (database error,
\* LLMAPIError); a closed LLM client always raises
GeneratePrompt(w) ==
    /\ Runs(w)
    /\ worker[w].pc = "llm"
    /\ \/ "prompt_agent" \notin clients_closed /\ ToCommitMetadata(w)
       \/ \E m \in Messages : ToHandler(w, m, 0)
    /\ UNCHANGED resolverVars
    /\ UNCHANGED <<dbVars, queue, unfinished, is_running, worker_task,
                   clients_closed, callVars, enqueues>>

\* the loop over the n returned images (no suspension): img.save and
\* session.add for each; img.save of image k raises with k-1 objects added
SaveImages(w, n) ==
    \/ worker' = [worker EXCEPT ![w].pc = "commit_images", ![w].saved = n,
                                ![w].dirty = FALSE]
    \/ \E k \in 1..n : ToHandler(w, ErrorMsg, k - 1)

\* the provider call returns or raises: sd_client.txt2img (never an empty
\* list; a closed client always raises), GeminiClient / XAIClient
\* generate_images (an empty list raises ApplicationError in the pipeline)
Provider(w) ==
    /\ Runs(w)
    /\ worker[w].pc = "provider"
    /\ \/ /\ Mode(w) = "sd"
          /\ "sd_client" \notin clients_closed
          /\ \E n \in 1..MaxImages : SaveImages(w, n)
       \/ /\ Mode(w) # "sd"
          /\ ToCommitMetadata(w)
       \/ \E m \in Messages : ToHandler(w, m, 0)
    /\ UNCHANGED resolverVars
    /\ UNCHANGED <<dbVars, queue, unfinished, is_running, worker_task,
                   clients_closed, callVars, enqueues>>

\* a pipeline that goes on without persisting the metadata row
CommitMetadata_NoInsert(w) ==
    /\ Runs(w)
    /\ worker[w].pc = "commit_metadata"
    /\ metadata' = metadata
    /\ IF Mode(w) = "sd" THEN Goto(w, "provider")
       ELSE \E n \in 1..MaxImages : SaveImages(w, n)
    /\ UNCHANGED resolverVars
    /\ UNCHANGED <<status, error_message, images, queue, unfinished, is_running,
                   worker_task, clients_closed, callVars, enqueues>>

\* session.add(metadata); commit; refresh, or the commit raises
CommitMetadata(w) ==
    /\ Runs(w)
    /\ worker[w].pc = "commit_metadata"
    /\ \/ /\ metadata' = [metadata EXCEPT ![Rid(w)] = @ + 1]
          /\ IF Mode(w) = "sd" THEN Goto(w, "provider")
             ELSE \E n \in 1..MaxImages : SaveImages(w, n)
       \/ /\ metadata' = metadata
          /\ ToHandler(w, ErrorMsg, 0)
    /\ UNCHANGED resolverVars
    /\ UNCHANGED <<status, error_message, images, queue, unfinished, is_running,
                   worker_task, clients_closed, callVars, enqueues>>

\* a pipeline that goes on to COMPLETED without inserting the image rows
CommitImages_NoInsert(w) ==
    /\ Runs(w)
    /\ worker[w].pc = "commit_images"
    /\ images' = images
    /\ worker' = [worker EXCEPT ![w].pc = "commit_completed", ![w].saved = 0]
    /\ UNCHANGED resolverVars
    /\ UNCHANGED <<status, error_message, metadata, queue, unfinished, is_running,
                   worker_task, clients_closed, callVars, enqueues>>

\* the commit of the GeneratedImage rows, or the commit raises (the
\* rollback drops the added objects)
CommitImages(w) ==
    /\ Runs(w)
    /\ worker[w].pc = "commit_images"
    /\ \/ /\ images' = [images EXCEPT ![Rid(w)] = @ + worker[w].saved]
          /\ worker' = [worker EXCEPT ![w].pc = "commit_completed", ![w].saved = 0]
       \/ /\ images' = images
          /\ ToHandler(w, ErrorMsg, 0)
    /\ UNCHANGED resolverVars
    /\ UNCHANGED <<status, error_message, metadata, queue, unfinished, is_running,
                   worker_task, clients_closed, callVars, enqueues>>

\* request.status = COMPLETED; commit; back in the loop: queue.task_done()
\* and the next turn of the loop
Complete(w) ==
    /\ status' = [status EXCEPT ![Rid(w)] = COMPLETED]
    /\ unfinished' = unfinished - 1
    /\ LoopTop(w)

CommitCompleted(w) ==
    /\ Runs(w)
    /\ worker[w].pc = "commit_completed"
    /\ \/ Complete(w)
       \/ /\ UNCHANGED <<status, unfinished, queue>>
          /\ ToHandler(w, ErrorMsg, 0)
    /\ UNCHANGED resolverVars
    /\ UNCHANGED <<error_message, metadata, images, is_running, worker_task,
                   clients_closed, callVars, enqueues>>

\* a handler that rolls the session back before it commits FAILED
Fail_RollsBack(w) ==
    /\ status' = [status EXCEPT ![Rid(w)] = FAILED]
    /\ error_message' = [error_message EXCEPT ![Rid(w)] = worker[w].err]
    /\ images' = images
    /\ ToSleep(w, worker[w].err)

\* a handler that sets FAILED and forgets error_message
Fail_NoMessage(w) ==
    /\ status' = [status EXCEPT ![Rid(w)] = FAILED]
    /\ error_message' = error_message
    /\ images' = [images EXCEPT ![Rid(w)] = @ + worker[w].saved]
    /\ ToSleep(w, worker[w].err)

\* the handler (except ApplicationError / except Exception): status =
\* FAILED, error_message = e.message or str(e), the commit (which also
\* inserts the GeneratedImage objects of the session), then "raise"
Fail(w) ==
    /\ status' = [status EXCEPT ![Rid(w)] = FAILED]
    /\ error_message' = [error_message EXCEPT ![Rid(w)] = worker[w].err]
    /\ images' = [images EXCEPT ![Rid(w)] = @ + worker[w].saved]
    /\ ToSleep(w, worker[w].err)

\* if the commit of the handler raises, that exception leaves the pipeline
CommitFailed(w) ==
    /\ Runs(w)
    /\ worker[w].pc = "commit_failed"
    /\ \/ Fail(w)
       \/ /\ UNCHANGED <<status, error_message, images>>
          /\ ToSleep(w, ErrorMsg)
    /\ UNCHANGED resolverVars
    /\ UNCHANGED <<metadata, queue, unfinished, is_running, worker_task,
                   clients_closed, callVars, enqueues>>

\* asyncio.sleep(queue_error_retry_interval) ends: the next turn of the loop
Sleep(w) ==
    /\ Runs(w)
    /\ worker[w].pc = "sleep"
    /\ LoopTop(w)
    /\ UNCHANGED resolverVars
    /\ UNCHANGED <<dbVars, unfinished, is_running, worker_task, clients_closed,
                   callVars, enqueues>>

\* CancelledError is thrown into the task at its suspension point: it is
\* not an Exception, so no handler of the pipeline runs; the session is
\* closed without a commit and the loop ends ("except CancelledError: break")
Cancelled(w) ==
    /\ Live(w)
    /\ worker[w].cancel
    /\ worker' = [worker EXCEPT ![w] = [NoWorker EXCEPT !.pc = "ended"]]
    /\ UNCHANGED resolverVars
    /\ UNCHANGED <<dbVars, queue, unfinished, is_running, worker_task,
                   clients_closed, callVars, enqueues>>

WorkerStep(w) ==
    \/ WorkerLoop(w)
    \/ GetRequest(w)
    \/ CommitProcessing(w)
    \/ GeneratePrompt(w)
    \/ CommitMetadata(w)
    \/ Provider(w)
    \/ CommitImages(w)
    \/ CommitCompleted(w)
    \/ CommitFailed(w)
    \/ Sleep(w)

----------------------------------------------------------------------------
(* The whole life cycle of one manager, from its construction: admissions  *)
(* and enqueue calls as the bot makes them (no priority argument), start() *)
(* and stop() calls at any time, and the workers.                          *)

LifecycleEnqueue(r) ==
    /\ enqueues < MaxLifecycleEnqueues
    /\ \/ enqueue_generation(r, DefaultPriority)
       \/ enqueue_gemini_generation(r, DefaultPriority)
       \/ enqueue_xai_generation(r, DefaultPriority)

Next ==
    \/ \E r \in LifecycleIds : CreateRequest(r)
    \/ \E r \in LifecycleIds : LifecycleEnqueue(r)
    \/ StartBegin
    \/ \E s \in CallIds : RestoreSelect(s)
    \/ \E s \in CallIds : RestoreCommit(s)
    \/ \E s \in CallIds : RestoreRaise(s)
    \/ StopBegin
    \/ \E k \in CallIds : StopAwait(k)
    \/ \E k \in CallIds : StopClose(k)
    \/ \E w \in CallIds : WorkerStep(w)
    \/ \E w \in CallIds : Cancelled(w)

Spec == Init /\ [][Next]_vars

----------------------------------------------------------------------------
(* The manager after start() has returned on an empty database: the state  *)
(* in which the bot serves its commands (setup_hook has awaited start()).  *)

InitRunning ==
    /\ ResolverIdle
    /\ status = [r \in RequestIds |-> NOROW]
    /\ error_message = [r \in RequestIds |-> NULL]
    /\ metadata = [r \in RequestIds |-> 0]
    /\ images = [r \in RequestIds |-> 0]
    /\ queue = <<>>
    /\ unfinished = 0
    /\ is_running = TRUE
    /\ worker_task = 1
    /\ clients_closed = {}
    /\ worker = [w \in CallIds |-> IF w = 1 THEN [NoWorker EXCEPT !.pc = "created"]
                                   ELSE NoWorker]
    /\ startCall = [s \in CallIds |-> [pc |-> IF s = 1 THEN "done" ELSE "none",
                                       snap |-> NoSnap]]
    /\ stopCall = [s \in CallIds |-> [pc |-> "none", target |-> 0]]
    /\ starts = 1
    /\ enqueues = 0

\* the bot's commands: the row of the request is committed, then its task
\* is enqueued with no priority argument (discord_bot.py)
Admitted(r) == status[r] # NOROW

NextService ==
    \/ \E r \in RequestIds : CreateRequest(r)
    \/ \E r \in RequestIds :
          Admitted(r) /\ enqueue_generation(r, DefaultPriority)
    \/ \E r \in RequestIds :
          Admitted(r) /\ enqueue_gemini_generation(r, DefaultPriority)
    \/ \E r \in RequestIds :
          Admitted(r) /\ enqueue_xai_generation(r, DefaultPriority)
    \/ \E w \in CallIds : WorkerStep(w)

SpecService == InitRunning /\ [][NextService]_vars

\* the worker runs whenever it can take a step: every awaited call of the
\* worker returns or raises
FairService == SpecService /\ \A w \in CallIds : WF_vars(WorkerStep(w))

\* callers that pass a priority, for a request id with or without a row
NextPriority ==
    \/ \E r \in PriorityIds : CreateRequest(r)
    \/ \E r \in PriorityIds, p \in Priorities : enqueue_generation(r, p)
    \/ \E r \in PriorityIds, p \in Priorities : enqueue_gemini_generation(r, p)
    \/ \E r \in PriorityIds, p \in Priorities : enqueue_xai_generation(r, p)
    \/ \E w \in CallIds : WorkerStep(w)

SpecPriority == InitRunning /\ [][NextPriority]_vars

----------------------------------------------------------------------------
(* stop() on a manager that was never started or that is running: the      *)
(* bot's admissions and enqueue calls, the worker, and stop() calls at any *)
(* time (DiffusePilotBot.close); no start() follows.                       *)

InitStop == Init \/ InitRunning

NextStop ==
    \/ \E r \in LifecycleIds : CreateRequest(r)
    \/ \E r \in LifecycleIds : LifecycleEnqueue(r)
    \/ StopBegin
    \/ \E k \in CallIds : StopAwait(k)
    \/ \E k \in CallIds : StopClose(k)
    \/ \E w \in CallIds : WorkerStep(w)
    \/ \E w \in CallIds : Cancelled(w)

SpecStop == InitStop /\ [][NextStop]_vars

\* the event loop delivers the cancellation and resumes stop(); the close()
\* calls return
FairStop ==
    /\ SpecStop
    /\ \A w \in CallIds : WF_vars(Cancelled(w))
    /\ \A k \in CallIds : WF_vars(StopAwait(k))
    /\ \A k \in CallIds : WF_vars(StopClose(k))

----------------------------------------------------------------------------
(* start() on a stopped manager, over every persisted state an earlier     *)
(* process may have left behind; admissions and enqueue calls may come in  *)
(* while the recovery pass runs.                                           *)

InitRecovery ==
    /\ ResolverIdle
    /\ status \in [RequestIds -> {NOROW} \cup RequestStatus]
    /\ error_message = [r \in RequestIds |->
                          IF status[r] = FAILED THEN ErrorMsg ELSE NULL]
    /\ metadata = [r \in RequestIds |-> 0]
    /\ images = [r \in RequestIds |-> 0]
    /\ queue = <<>>
    /\ unfinished = 0
    /\ is_running = FALSE
    /\ worker_task = 0
    /\ clients_closed = {}
    /\ worker = [w \in CallIds |-> NoWorker]
    /\ startCall = [s \in CallIds |-> [pc |-> "none", snap |-> NoSnap]]
    /\ stopCall = [s \in CallIds |-> [pc |-> "none", target |-> 0]]
    /\ starts = 0
    /\ enqueues = 0

NextRecovery ==
    \/ \E r \in RequestIds : CreateRequest(r)
    \/ \E r \in RequestIds : enqueue_generation(r, DefaultPriority)
    \/ StartBegin
    \/ \E s \in CallIds : RestoreSelect(s)
    \/ \E s \in CallIds : RestoreCommit(s)
    \/ \E s \in CallIds : RestoreRaise(s)

SpecRecovery == InitRecovery /\ [][NextRecovery]_vars

----------------------------------------------------------------------------
(* The life cycle of one manager under the bot's admissions only: a        *)
(* command commits the row of its request and then enqueues one task for   *)
(* it (generate_command); start() and stop() calls at any time.            *)

AdmissionEnqueue(r) == Admitted(r) /\ LifecycleEnqueue(r)

NextAdmission ==
    \/ \E r \in LifecycleIds : CreateRequest(r)
    \/ \E r \in LifecycleIds : AdmissionEnqueue(r)
    \/ StartBegin
    \/ \E s \in CallIds : RestoreSelect(s)
    \/ \E s \in CallIds : RestoreCommit(s)
    \/ \E s \in CallIds : RestoreRaise(s)
    \/ StopBegin
    \/ \E k \in CallIds : StopAwait(k)
    \/ \E k \in CallIds : StopClose(k)
    \/ \E w \in CallIds : WorkerStep(w)
    \/ \E w \in CallIds : Cancelled(w)

SpecAdmission == Init /\ [][NextAdmission]_vars

----------------------------------------------------------------------------
(* Values of the settings and of the parameter resolver.  Every value is a *)
(* record, so that Python's None compares with all of them.                *)

None == [py |-> "None"]

\* the value a source supplies for a key: it is told apart by its source
Val(source, key) == [source |-> source, key |-> key]

\* a str, as the sequence of its characters
Text(chars) == [text |-> chars]
EmptyText == Text(<<>>)

\* Python truthiness of an optional str or dict
Truthy(v) == v # None /\ v # EmptyText

----------------------------------------------------------------------------
(* The global_settings table (models/settings.py) and the settings load of *)
(* the default pipeline (queue_manager.py, settings_service.py).  The      *)
(* table has no unique constraint on (guild_id, user_id).                  *)

NumSettingsRows == 2

Guilds == {"g1", "g2"}
Users == {"u1", "u2"}
SettingsRowIds == 1..NumSettingsRows

\* PromptAgent._SD_PARAM_KEYS
_SD_PARAM_KEYS == {"steps", "cfg_scale", "sampler", "scheduler", "width", "height"}

\* a GlobalSettings row: row i of guild g and of user u (NULL: the default
\* row of the guild); its nullable columns are all set, each to a value of
\* its own, or all null
GlobalSettings(i, g, u, filled) ==
    [id |-> i, guild_id |-> g, user_id |-> u,
     default_model |-> IF filled THEN Val(ToString(i), "default_model") ELSE None,
     default_lora_list |->
         IF filled THEN Val(ToString(i), "default_lora_list") ELSE None,
     default_prompt_suffix |->
         IF filled THEN Text(<<ToString(i)>>) ELSE None,
     default_sd_params |->
         IF filled THEN [k \in _SD_PARAM_KEYS |-> Val(ToString(i), k)] ELSE None,
     seed |-> IF filled THEN Val(ToString(i), "seed") ELSE None,
     batch_size |-> IF filled THEN Val(ToString(i), "batch_size") ELSE None,
     batch_count |-> IF filled THEN Val(ToString(i), "batch_count") ELSE None,
     hires_upscaler |-> IF filled THEN Val(ToString(i), "hires_upscaler") ELSE None,
     hires_steps |-> IF filled THEN Val(ToString(i), "hires_steps") ELSE None,
     denoising_strength |->
         IF filled THEN Val(ToString(i), "denoising_strength") ELSE None,
     upscale_by |-> IF filled THEN Val(ToString(i), "upscale_by") ELSE None,
     refiner_checkpoint |->
         IF filled THEN Val(ToString(i), "refiner_checkpoint") ELSE None,
     refiner_switch_at |->
         IF filled THEN Val(ToString(i), "refiner_switch_at") ELSE None]

\* the tables of at most NumSettingsRows rows
SettingsTables ==
    UNION {[1..n -> {GlobalSettings(0, g, u, f) :
                        g \in Guilds, u \in Users \cup {NULL}, f \in BOOLEAN}]
           : n \in 0..NumSettingsRows}

Numbered(t) ==
    [i \in DOMAIN t |->
        GlobalSettings(i, t[i].guild_id, t[i].user_id, t[i].default_model # None)]

\* the rows SettingsService.get_settings selects
Selected(guild_id, user_id) ==
    {i \in DOMAIN settings_rows :
        /\ settings_rows[i].guild_id = guild_id
        /\ settings_rows[i].user_id = user_id}

\* scalar_one_or_none raises MultipleResultsFound on more than one row
MultipleResultsFound(guild_id, user_id) ==
    Cardinality(Selected(guild_id, user_id)) > 1

get_settings(guild_id, user_id) ==
    IF Selected(guild_id, user_id) = {} THEN None
    ELSE settings_rows[CHOOSE i \in Selected(guild_id, user_id) : TRUE]

\* QueueManager._EXTRA_SETTINGS_PARAMS
_EXTRA_SETTINGS_PARAMS ==
    {"batch_size", "batch_count", "hires_upscaler", "hires_steps",
     "denoising_strength", "upscale_by", "refiner_checkpoint", "refiner_switch_at"}

\* the nullable columns of a row
SettingsColumns ==
    {"default_model", "default_lora_list", "default_prompt_suffix",
     "default_sd_params", "seed"} \cup _EXTRA_SETTINGS_PARAMS

_extract_global_settings(settings) ==
    [f \in SettingsColumns |-> settings[f]]

\* a selection that prefers the guild's default row
SelectGlobalSettings_ServerFirst(guild_id, user_id) ==
    IF get_settings(guild_id, NULL) # None
    THEN _extract_global_settings(get_settings(guild_id, NULL))
    ELSE IF get_settings(guild_id, user_id) # None
    THEN _extract_global_settings(get_settings(guild_id, user_id))
    ELSE None

\* the settings bag of a request of user_id in guild_id: the user's row if
\* there is one, else the guild's default row, else None
SelectGlobalSettings(guild_id, user_id) ==
    IF get_settings(guild_id, user_id) # None
    THEN _extract_global_settings(get_settings(guild_id, user_id))
    ELSE IF get_settings(guild_id, NULL) # None
    THEN _extract_global_settings(get_settings(guild_id, NULL))
    ELSE None

\* the pipeline reads both rows, then selects; a read that raises takes the
\* pipeline to its handler before any bag is selected
LoadSettings ==
    /\ settings_load.pc = "load"
    /\ ~MultipleResultsFound(settings_load.guild_id, settings_load.user_id)
    /\ ~MultipleResultsFound(settings_load.guild_id, NULL)
    /\ settings_load' =
          [settings_load EXCEPT
              !.pc = "loaded",
              !.global_settings =
                  SelectGlobalSettings(settings_load.guild_id, settings_load.user_id)]
    /\ UNCHANGED <<queueVars, settings_rows, settings_call, resolution>>

LoadSettingsRaises ==
    /\ settings_load.pc = "load"
    /\ \/ MultipleResultsFound(settings_load.guild_id, settings_load.user_id)
       \/ MultipleResultsFound(settings_load.guild_id, NULL)
    /\ settings_load' = [settings_load EXCEPT !.pc = "raised"]
    /\ UNCHANGED <<queueVars, settings_rows, settings_call, resolution>>

QueueIdle ==
    /\ status = [r \in RequestIds |-> NOROW]
    /\ error_message = [r \in RequestIds |-> NULL]
    /\ metadata = [r \in RequestIds |-> 0]
    /\ images = [r \in RequestIds |-> 0]
    /\ queue = <<>>
    /\ unfinished = 0
    /\ is_running = FALSE
    /\ worker_task = 0
    /\ clients_closed = {}
    /\ worker = [w \in CallIds |-> NoWorker]
    /\ startCall = [s \in CallIds |-> [pc |-> "none", snap |-> NoSnap]]
    /\ stopCall = [s \in CallIds |-> [pc |-> "none", target |-> 0]]
    /\ starts = 0
    /\ enqueues = 0

\* a default-mode request of any user of any guild, over any table
InitSettings ==
    /\ QueueIdle
    /\ settings_rows \in {Numbered(t) : t \in SettingsTables}
    /\ settings_load \in {[pc |-> "load", guild_id |-> g, user_id |-> u,
                           global_settings |-> None] : g \in Guilds, u \in Users}
    /\ settings_call = NoCall
    /\ resolution = NoResolution

NextSettings ==
    \/ LoadSettings
    \/ LoadSettingsRaises

SpecSettings == InitSettings /\ [][NextSettings]_vars

----------------------------------------------------------------------------
(* The parameter resolver: PromptAgent._apply_defaults (prompt_agent.py).  *)
(* A dict is a function of its keys; a key that is missing and a key whose *)
(* value is None are both None (the code reads the dicts with .get).       *)

\* number of the keys of _SD_PARAM_KEYS the sources differ on
NumVariedKeys == 1

KeyOrder == <<"scheduler", "steps", "sampler", "cfg_scale", "width", "height">>
VariedKeys == {KeyOrder[i] : i \in 1..NumVariedKeys}

PromptKeys == {"prompt", "negative_prompt"}

Num(n) == [int |-> n]

\* the characters str.strip(", ") removes
Separators == {",", " "}

RECURSIVE LStrip(_)
LStrip(chars) ==
    IF chars # <<>> /\ Head(chars) \in Separators THEN LStrip(Tail(chars))
    ELSE chars

RECURSIVE RStrip(_)
RStrip(chars) ==
    IF chars # <<>> /\ chars[Len(chars)] \in Separators
    THEN RStrip(SubSeq(chars, 1, Len(chars) - 1))
    ELSE chars

\* f"{prompt}, {suffix}".strip(", ")
AppendSuffix(prompt, suffix) ==
    Text(RStrip(LStrip(prompt.text \o <<",", " ">> \o suffix.text)))

\* suffix in prompt
Contains(prompt, suffix) ==
    \E i \in 0..(Len(prompt.text) - Len(suffix.text)) :
        SubSeq(prompt.text, i + 1, i + Len(suffix.text)) = suffix.text

\* the negative prompt of line 299
BaselineNegativePrompt == Text(<<"w">>)

\* self.settings: the application's defaults (config/settings.py); sampler
\* and scheduler have none unless the environment configures them
AppDefaults ==
    [k \in _SD_PARAM_KEYS |->
        IF k \in {"sampler", "scheduler"} THEN None ELSE Val("settings", k)]

\* self.settings as the environment can configure it: the defaults, or
\* DEFAULT_SAMPLER and DEFAULT_SCHEDULER set
AppSettings ==
    {AppDefaults, [k \in _SD_PARAM_KEYS |-> Val("settings", k)]}

\* random.randint(0, 2**32 - 1): the least and the greatest value, each as
\* its two 16-bit halves (hi * 2^16 + lo)
MaxHalf == 2^16 - 1
Word32(hi, lo) == [hi |-> hi, lo |-> lo]
RandomSeeds == {Word32(0, 0), Word32(MaxHalf, MaxHalf)}

\* global_settings.get("default_sd_params", {}).get(key)
SdParam(global_settings, key) ==
    IF global_settings = None THEN None
    ELSE global_settings.default_sd_params[key]

\* sd_params.get raises AttributeError when the bag holds the key
\* default_sd_params with the value None
ApplyDefaultsRaises(in) ==
    in.global_settings # None /\ in.global_settings.default_sd_params = None

\* lines 229-258: the defaults dict
Defaults(in, key) ==
    IF in.previous_metadata # None
    THEN IF key = "negative_prompt"
         THEN IF Truthy(in.previous_metadata.negative_prompt)
              THEN in.previous_metadata.negative_prompt ELSE EmptyText
         ELSE in.previous_metadata[key]
    ELSE IF key \in PromptKeys THEN None
    ELSE IF SdParam(in.global_settings, key) # None
    THEN SdParam(in.global_settings, key)
    ELSE in.settings[key]

\* a resolver that fills no key from the defaults
Filled_NoDefaults(in, key) == in.result[key]

\* lines 260-263: a key the result leaves None takes its default
Filled(in, key) ==
    IF in.result[key] # None THEN in.result[key] ELSE Defaults(in, key)

\* lines 265-270: the research recommendation, for a new request
Researched(in, key) ==
    IF /\ in.research_result # None
       /\ in.previous_metadata = None
       /\ key \in _SD_PARAM_KEYS
       /\ Filled(in, key) = None
       /\ in.research_result.recommended_settings[key] # None
    THEN in.research_result.recommended_settings[key]
    ELSE Filled(in, key)

\* a resolver without the final override by the global settings
Overridden_Skipped(in, key) == Researched(in, key)

\* lines 272-277: the global settings once more
Overridden(in, key) ==
    IF key \in _SD_PARAM_KEYS /\ SdParam(in.global_settings, key) # None
    THEN SdParam(in.global_settings, key)
    ELSE Researched(in, key)

\* a resolver whose last step does not look at the previous metadata
Previous_Skipped(in, key) == Overridden(in, key)

\* lines 279-289: the previous metadata, where it has a value
Previous(in, key) ==
    IF in.previous_metadata = None THEN Overridden(in, key)
    ELSE IF key \in PromptKeys
    THEN IF Truthy(in.previous_metadata[key])
         THEN in.previous_metadata[key] ELSE Overridden(in, key)
    ELSE IF in.previous_metadata[key] # None
    THEN in.previous_metadata[key] ELSE Overridden(in, key)

\* lines 291-295: the prompt suffix
Suffixed(in) ==
    IF /\ in.global_settings # None
       /\ Truthy(in.global_settings.default_prompt_suffix)
       /\ ~Contains(Previous(in, "prompt"), in.global_settings.default_prompt_suffix)
    THEN AppendSuffix(Previous(in, "prompt"), in.global_settings.default_prompt_suffix)
    ELSE Previous(in, "prompt")

\* a resolver without the baseline negative prompt
NegativePrompt_NoBaseline(in) == Previous(in, "negative_prompt")

\* lines 297-303
NegativePrompt(in) ==
    IF Truthy(Previous(in, "negative_prompt")) THEN Previous(in, "negative_prompt")
    ELSE BaselineNegativePrompt

\* a resolver that ignores the seed of the global settings
Seed_NoGlobalSeed(in, drawn) ==
    IF in.result.seed = None \/ in.result.seed = Num(-1) THEN drawn
    ELSE in.result.seed

\* a resolver that draws a seed only when the result has none
Seed_KeepsSentinel(in, drawn) ==
    IF in.global_settings # None /\ in.global_settings.seed # None
    THEN in.global_settings.seed
    ELSE IF in.result.seed = None THEN drawn
    ELSE in.result.seed

\* lines 305-310; drawn is the value random.randint returns if it is called
Seed(in, drawn) ==
    IF in.global_settings # None /\ in.global_settings.seed # None
    THEN in.global_settings.seed
    ELSE IF in.result.seed = None \/ in.result.seed = Num(-1) THEN drawn
    ELSE in.result.seed

_apply_defaults(in, drawn) ==
    [key \in _SD_PARAM_KEYS \cup PromptKeys \cup {"seed"} |->
        IF key = "prompt" THEN Suffixed(in)
        ELSE IF key = "negative_prompt" THEN NegativePrompt(in)
        ELSE IF key = "seed" THEN Seed(in, drawn)
        ELSE Previous(in, key)]

\* the dicts a source can be: it supplies any of the varied keys
Supplied(source) ==
    {[k \in _SD_PARAM_KEYS |-> IF k \in S THEN Val(source, k) ELSE None] :
        S \in SUBSET VariedKeys}

\* what the language model returns (PromptGenerationResponse.model_dump(),
\* or the dict a caller passes): a prompt that holds the suffix or not
LlmResults ==
    {[k \in _SD_PARAM_KEYS \cup PromptKeys \cup {"seed"} |->
        IF k = "prompt" THEN p
        ELSE IF k = "negative_prompt" THEN n
        ELSE IF k = "seed" THEN s
        ELSE d[k]] :
        p \in {Text(<<"l">>), Text(<<"l", "s">>)},
        n \in {None, EmptyText, Text(<<"n">>)},
        s \in {None, Num(-1), Num(7)},
        d \in Supplied("llm")}

\* the GenerationMetadata of the previous generation: its nullable columns
\* may be null, its prompt may be empty
PreviousMetadatas ==
    {[k \in _SD_PARAM_KEYS \cup PromptKeys |->
        IF k = "prompt" THEN p
        ELSE IF k = "negative_prompt" THEN n
        ELSE IF k \in VariedKeys THEN d[k]
        ELSE Val("previous", k)] :
        p \in {EmptyText, Text(<<"q">>)},
        n \in {None, EmptyText, Text(<<"m">>)},
        d \in Supplied("previous")}

\* the settings bag (_extract_global_settings); the suffix is stored as the
\* user typed it, with a trailing comma or not
GlobalSettingsBags ==
    {[default_model |-> None, default_lora_list |-> None,
      default_prompt_suffix |-> x, default_sd_params |-> d, seed |-> s] :
        x \in {None, EmptyText, Text(<<"s">>), Text(<<"s", ",">>)},
        d \in {None} \cup Supplied("global"),
        s \in {None, Num(5)}}

ResearchResults ==
    {[recommended_settings |-> d] : d \in Supplied("research")}

ResolverInput(s, r, p, g, w) ==
    [settings |-> s, result |-> r, previous_metadata |-> p,
     global_settings |-> g, research_result |-> w]

ApplyDefaults ==
    /\ resolution.pc = "call"
    /\ ~ApplyDefaultsRaises(resolution.in)
    /\ \E drawn \in RandomSeeds :
          resolution' = [pc |-> "returned", in |-> resolution.in,
                         out |-> _apply_defaults(resolution.in, drawn)]
    /\ UNCHANGED <<queueVars, settings_rows, settings_load, settings_call>>

ApplyDefaultsError ==
    /\ resolution.pc = "call"
    /\ ApplyDefaultsRaises(resolution.in)
    /\ resolution' = [pc |-> "raised", in |-> resolution.in, out |-> None]
    /\ UNCHANGED <<queueVars, settings_rows, settings_load, settings_call>>

InitResolver ==
    /\ QueueIdle
    /\ settings_rows = <<>>
    /\ settings_load = NoLoad
    /\ settings_call = NoCall
    /\ \E s \in AppSettings, r \in LlmResults,
          p \in {None} \cup PreviousMetadatas,
          g \in {None} \cup GlobalSettingsBags,
          w \in {None} \cup ResearchResults :
          resolution = [pc |-> "call", in |-> ResolverInput(s, r, p, g, w),
                        out |-> None]

NextResolver ==
    \/ ApplyDefaults
    \/ ApplyDefaultsError

SpecResolver == InitResolver /\ [][NextResolver]_vars

\* a second call of the resolver with the same arguments (a fresh copy of the
\* LLM result: the first call fills the dict it is given in place)
ApplyDefaultsAgain ==
    /\ resolution.pc = "returned"
    /\ \E drawn \in RandomSeeds :
          resolution' = [pc |-> "returned_twice", in |-> resolution.in,
                         out |-> resolution.out,
                         out2 |-> _apply_defaults(resolution.in, drawn)]
    /\ UNCHANGED <<queueVars, settings_rows, settings_load, settings_call>>

NextResolverTwice ==
    \/ ApplyDefaults
    \/ ApplyDefaultsError
    \/ ApplyDefaultsAgain

SpecResolverTwice == InitResolver /\ [][NextResolverTwice]_vars

----------------------------------------------------------------------------
(* The default pipeline after the resolver has returned: the metadata row  *)
(* is built from the prompt result and committed, the SD parameters are    *)
(* built from the metadata object, and txt2img sends the request           *)
(* (queue_manager.py, sd_client.py).                                       *)

MetadataColumns ==
    {"prompt", "negative_prompt", "steps", "cfg_scale", "sampler", "scheduler",
     "seed", "width", "height"}

\* GenerationMetadata(...): the columns taken from the prompt result
MetadataOfResult(prompt_result) ==
    [k \in MetadataColumns |-> prompt_result[k]]

\* the commit of the metadata row raises on a null in a NOT NULL column
\* (negative_prompt and scheduler are nullable)
MetadataCommitRaises(meta) ==
    \E k \in MetadataColumns \ {"negative_prompt", "scheduler"} : meta[k] = None

\* sd_params_kwargs: the keys the pipeline takes from the metadata object
sd_params_kwargs(meta) ==
    [k \in MetadataColumns \ {"scheduler"} |-> meta[k]]

\* SDGenerationParams(**kwargs): a keyword that is not passed keeps its
\* default, which is None for scheduler
SDGenerationParams(kwargs) ==
    [k \in MetadataColumns |-> IF k \in DOMAIN kwargs THEN kwargs[k] ELSE None]

\* SDGenerationParams.to_dict: sampler_name and scheduler are set only if
\* truthy (a key that is not in the dict is None here)
to_dict(params) ==
    [k \in (MetadataColumns \ {"sampler"}) \cup {"sampler_name"} |->
        IF k = "sampler_name"
        THEN IF Truthy(params.sampler) THEN params.sampler ELSE None
        ELSE IF k = "scheduler"
        THEN IF Truthy(params.scheduler) THEN params.scheduler ELSE None
        ELSE params[k]]

\* txt2img: a sampler or scheduler the SD server does not list is removed
\* from the request
request_data(params, sampler_listed, scheduler_listed) ==
    [to_dict(params) EXCEPT
        !.sampler_name = IF sampler_listed THEN @ ELSE None,
        !.scheduler = IF scheduler_listed THEN @ ELSE None]

\* from the return of generate_prompt to the POST of txt2img, or to the
\* metadata commit that raises
Txt2Img ==
    /\ resolution.pc = "returned"
    /\ LET meta == MetadataOfResult(resolution.out)
       IN  IF MetadataCommitRaises(meta)
           THEN resolution' = [pc |-> "commit_raised", in |-> resolution.in,
                               out |-> resolution.out]
           ELSE \E sampler_listed, scheduler_listed \in BOOLEAN :
                  resolution' =
                      [pc |-> "sent", in |-> resolution.in, out |-> resolution.out,
                       metadata |-> meta,
                       request |->
                           request_data(SDGenerationParams(sd_params_kwargs(meta)),
                                        sampler_listed, scheduler_listed)]
    /\ UNCHANGED <<queueVars, settings_rows, settings_load, settings_call>>

NextSdCall ==
    \/ ApplyDefaults
    \/ ApplyDefaultsError
    \/ Txt2Img

SpecSdCall == InitResolver /\ [][NextSdCall]_vars

----------------------------------------------------------------------------
(* PromptAgent.generate_prompt: the web research step, then the LLM call   *)
(* and the resolver (prompt_agent.py).                                     *)

\* the longest instruction, in units
MaxInstructionLen == 2

\* an instruction is a str over these units: "r" stands for the unit the
\* first two skip keywords begin with, "x" for any other text
InstructionUnits == {"r", "n", "s", "c", "g", "x"}

\* PromptAgent.WEB_RESEARCH_SKIP_KEYWORDS
WEB_RESEARCH_SKIP_KEYWORDS ==
    {Text(<<"r", "n">>), Text(<<"r", "s">>), Text(<<"c">>), Text(<<"g">>)}

Instructions ==
    {Text(chars) : chars \in UNION {[1..n -> InstructionUnits] : n \in 0..MaxInstructionLen}}

\* any(keyword in user_instruction for keyword in WEB_RESEARCH_SKIP_KEYWORDS)
HasSkipKeyword(user_instruction) ==
    \E keyword \in WEB_RESEARCH_SKIP_KEYWORDS : Contains(user_instruction, keyword)

\* a research step that does not look for the skip keywords
CallsResearch_IgnoresKeywords(call) ==
    call.web_research /\ call.previous_metadata = None

\* research_best_practices is called: line 86 and line 331
CallsResearch(call) ==
    /\ call.web_research
    /\ call.previous_metadata = None
    /\ ~HasSkipKeyword(call.user_instruction)

\* the arguments of generate_prompt: the instruction, the previous metadata
\* of a follow-up, the web_research flag
InitResearch ==
    /\ QueueIdle
    /\ settings_rows = <<>>
    /\ settings_load = NoLoad
    /\ settings_call = NoCall
    /\ \E i \in Instructions, f \in BOOLEAN,
          p \in {None} \cup {m \in PreviousMetadatas :
                                m.prompt = Text(<<"q">>) /\ m.negative_prompt = None} :
          resolution = [pc |-> "research",
                        call |-> [user_instruction |-> i, previous_metadata |-> p,
                                  web_research |-> f]]

\* lines 84-87 and _perform_web_research: no research, or the call of
\* research_best_practices returns a result, returns None or raises, and
\* "except Exception" turns the exception into None
PerformWebResearch ==
    /\ resolution.pc = "research"
    /\ IF CallsResearch(resolution.call)
       THEN \/ \E w \in {None} \cup ResearchResults :
                 resolution' = [pc |-> "chat", call |-> resolution.call,
                                attempted |-> TRUE, research_raised |-> FALSE,
                                research_result |-> w]
            \/ resolution' = [pc |-> "chat", call |-> resolution.call,
                              attempted |-> TRUE, research_raised |-> TRUE,
                              research_result |-> None]
       ELSE resolution' = [pc |-> "chat", call |-> resolution.call,
                           attempted |-> FALSE, research_raised |-> FALSE,
                           research_result |-> None]
    /\ UNCHANGED <<queueVars, settings_rows, settings_load, settings_call>>

\* lines 89-128: llm_client.chat returns and the result is resolved
ChatReturns ==
    /\ resolution.pc = "chat"
    /\ \E r \in LlmResults, drawn \in RandomSeeds :
          resolution' =
              [pc |-> "returned", call |-> resolution.call,
               attempted |-> resolution.attempted,
               research_raised |-> resolution.research_raised,
               research_result |-> resolution.research_result,
               out |-> _apply_defaults(
                           ResolverInput(AppDefaults, r,
                                         resolution.call.previous_metadata, None,
                                         resolution.research_result),
                           drawn)]
    /\ UNCHANGED <<queueVars, settings_rows, settings_load, settings_call>>

\* lines 133-138: the chat or the parse of its response raises: LLMAPIError
ChatRaises ==
    /\ resolution.pc = "chat"
    /\ resolution' = [resolution EXCEPT !.pc = "raised"]
    /\ UNCHANGED <<queueVars, settings_rows, settings_load, settings_call>>

NextResearch ==
    \/ PerformWebResearch
    \/ ChatReturns
    \/ ChatRaises

SpecResearch == InitResearch /\ [][NextResearch]_vars

----------------------------------------------------------------------------
(* The settings service (settings_service.py): the values a caller can     *)
(* pass, _validate_settings, and create / update / delete as the calls of  *)
(* one caller after another.                                               *)

\* a float, as its number of tenths, and float("nan")
Flt(t) == [tenths |-> t]
NaN == [float |-> "nan"]

\* isinstance(v, int), isinstance(v, float), isinstance(v, str), isinstance(v, dict)
IsInt(v) == DOMAIN v = {"int"}
IsFloat(v) == v = NaN \/ DOMAIN v = {"tenths"}
IsStr(v) == DOMAIN v = {"text"}
IsDict(v) == DOMAIN v = _SD_PARAM_KEYS

Tenths(v) == IF IsInt(v) THEN 10 * v.int ELSE v.tenths

\* v < t / 10 and v > t / 10: every comparison with nan is false
Below(v, t) == v # NaN /\ Tenths(v) < t
Above(v, t) == v # NaN /\ Tenths(v) > t

\* len(v.strip()) == 0
Blank(v) == \A i \in 1..Len(v.text) : v.text[i] = " "

\* not isinstance(v, int) or v < lo or v > hi
BadInt(v, lo, hi) == ~IsInt(v) \/ v.int < lo \/ v.int > hi

\* not isinstance(v, (int, float)) or v < lo or v > hi (lo, hi in tenths)
BadNumber(v, lo, hi) == ~(IsInt(v) \/ IsFloat(v)) \/ Below(v, lo) \/ Above(v, hi)

\* not isinstance(v, str) or len(v.strip()) == 0
BadName(v) == ~IsStr(v) \/ Blank(v)

\* a default_lora_list: a dict, or a list of one item; the item is a dict,
\* with a name or not and with a weight that is a number or not, or a str
Lora(container, item, name, weight) ==
    [container |-> container, item |-> item, name |-> name, weight |-> weight]

\* lines 320-342
BadLora(v) ==
    \/ v.container \notin {"dict", "list"}
    \/ v.item = "dict" /\ ~v.name
    \/ v.item = "dict" /\ v.weight \notin {"absent", "number"}

\* lines 345-395; "key in default_sd_params" is a value other than None
BadSdParams(d) ==
    \/ ~IsDict(d)
    \/ d.steps # None /\ BadInt(d.steps, 1, 150)
    \/ d.cfg_scale # None /\ BadNumber(d.cfg_scale, 10, 300)
    \/ d.sampler # None /\ BadName(d.sampler)
    \/ d.scheduler # None /\ BadName(d.scheduler)
    \/ d.width # None /\ BadInt(d.width, 64, 2048)
    \/ d.height # None /\ BadInt(d.height, 64, 2048)

\* _validate_settings raises ApplicationError
ValidationRaises(args) ==
    \/ args.default_model # None /\ BadName(args.default_model)
    \/ args.default_lora_list # None /\ BadLora(args.default_lora_list)
    \/ args.default_sd_params # None /\ BadSdParams(args.default_sd_params)
    \/ args.seed # None /\ (~IsInt(args.seed) \/ args.seed.int < -1)
    \/ args.batch_size # None /\ BadInt(args.batch_size, 1, 8)
    \/ args.batch_count # None /\ BadInt(args.batch_count, 1, 100)
    \/ args.hires_upscaler # None /\ BadName(args.hires_upscaler)
    \/ args.hires_steps # None /\ BadInt(args.hires_steps, 1, 150)
    \/ args.denoising_strength # None /\ BadNumber(args.denoising_strength, 0, 10)
    \/ args.upscale_by # None /\ BadNumber(args.upscale_by, 10, 40)
    \/ args.refiner_checkpoint # None /\ BadName(args.refiner_checkpoint)
    \/ args.refiner_switch_at # None /\ BadNumber(args.refiner_switch_at, 0, 10)

\* the keyword arguments of a call: every one defaults to None
NoArgs == [f \in SettingsColumns |-> None]
NoSdParams == [k \in _SD_PARAM_KEYS |-> None]

\* the outcome of a call: what it returns or raises
Returned == "returned"
ApplicationError == "ApplicationError"
MultipleResults == "MultipleResultsFound"

Call(op, g, u, args, outcome, result) ==
    [op |-> op, calls |-> settings_call.calls + 1, guild_id |-> g, user_id |-> u,
     args |-> args, outcome |-> outcome, result |-> result]

\* the row the call adds: a new id, the columns as passed
NewRow(g, u, args) ==
    [f \in SettingsColumns \cup {"id", "guild_id", "user_id"} |->
        IF f = "id" THEN settings_call.calls + 1
        ELSE IF f = "guild_id" THEN g
        ELSE IF f = "user_id" THEN u
        ELSE args[f]]

\* an update that sets every column, None included
UpdatedRow_SetsAll(row, args) ==
    [f \in DOMAIN row |-> IF f \in SettingsColumns THEN args[f] ELSE row[f]]

\* lines 201-226: the columns passed as non-None are set
UpdatedRow(row, args) ==
    [f \in DOMAIN row |->
        IF f \in SettingsColumns /\ args[f] # None THEN args[f] ELSE row[f]]

TheRow(g, u) == CHOOSE i \in Selected(g, u) : TRUE

create_settings(g, u, args) ==
    /\ IF MultipleResultsFound(g, u)
       THEN /\ settings_call' = Call("create", g, u, args, MultipleResults, None)
            /\ UNCHANGED settings_rows
       ELSE IF Selected(g, u) # {} \/ ValidationRaises(args)
       THEN /\ settings_call' = Call("create", g, u, args, ApplicationError, None)
            /\ UNCHANGED settings_rows
       ELSE /\ settings_rows' = Append(settings_rows, NewRow(g, u, args))
            /\ settings_call' = Call("create", g, u, args, Returned, NewRow(g, u, args))
    /\ UNCHANGED <<queueVars, settings_load, resolution>>

update_settings(g, u, args) ==
    /\ IF ValidationRaises(args)
       THEN /\ settings_call' = Call("update", g, u, args, ApplicationError, None)
            /\ UNCHANGED settings_rows
       ELSE IF MultipleResultsFound(g, u)
       THEN /\ settings_call' = Call("update", g, u, args, MultipleResults, None)
            /\ UNCHANGED settings_rows
       ELSE IF Selected(g, u) # {}
       THEN /\ settings_rows' =
                  [settings_rows EXCEPT
                      ![TheRow(g, u)] = UpdatedRow(settings_rows[TheRow(g, u)], args)]
            /\ settings_call' =
                  Call("update", g, u, args, Returned,
                       UpdatedRow(settings_rows[TheRow(g, u)], args))
       ELSE /\ settings_rows' = Append(settings_rows, NewRow(g, u, args))
            /\ settings_call' = Call("update", g, u, args, Returned, NewRow(g, u, args))
    /\ UNCHANGED <<queueVars, settings_load, resolution>>

delete_settings(g, u) ==
    /\ IF MultipleResultsFound(g, u)
       THEN /\ settings_call' = Call("delete", g, u, NoArgs, MultipleResults, None)
            /\ UNCHANGED settings_rows
       ELSE IF Selected(g, u) = {}
       THEN /\ settings_call' = Call("delete", g, u, NoArgs, Returned, FALSE)
            /\ UNCHANGED settings_rows
       ELSE /\ settings_rows' = Remove(settings_rows, TheRow(g, u))
            /\ settings_call' = Call("delete", g, u, NoArgs, Returned, TRUE)
    /\ UNCHANGED <<queueVars, settings_load, resolution>>

\* the values a caller passes for one argument: in range, on the edges of
\* the range, outside it, of another type
IntCandidates(lo, hi) == {Num(lo - 1), Num(lo), Num(hi), Num(hi + 1), Flt(10 * lo)}
NumberCandidates(lo, hi) ==
    {Flt(lo - 1), Flt(lo), Flt(hi), Flt(hi + 1), Num(1), NaN, Text(<<"x">>)}
NameCandidates == {Text(<<"x">>), EmptyText, Text(<<" ">>), Num(1)}
LoraCandidates ==
    {Lora("dict", "dict", TRUE, "number"), Lora("dict", "dict", FALSE, "absent"),
     Lora("list", "dict", TRUE, "absent"), Lora("list", "dict", TRUE, "str"),
     Lora("list", "str", FALSE, "absent"), Lora("str", "str", FALSE, "absent")}

SdParamCandidates(key) ==
    IF key = "steps" THEN IntCandidates(1, 150)
    ELSE IF key = "cfg_scale" THEN NumberCandidates(10, 300)
    ELSE IF key \in {"width", "height"} THEN IntCandidates(64, 2048)
    ELSE NameCandidates

Candidates(f) ==
    IF f \in {"default_model", "hires_upscaler", "refiner_checkpoint"}
    THEN NameCandidates
    ELSE IF f = "default_lora_list" THEN LoraCandidates
    ELSE IF f = "default_prompt_suffix" THEN {Text(<<"s">>), EmptyText}
    ELSE IF f = "default_sd_params"
    THEN {Text(<<"x">>)} \cup
         {[NoSdParams EXCEPT ![k] = v] : <<k, v>> \in
             UNION {{<<key, c>> : c \in SdParamCandidates(key)} : key \in _SD_PARAM_KEYS}}
    ELSE IF f = "seed" THEN {Num(-2), Num(-1), Num(0), Flt(10)}
    ELSE IF f = "batch_size" THEN IntCandidates(1, 8)
    ELSE IF f = "batch_count" THEN IntCandidates(1, 100)
    ELSE IF f = "hires_steps" THEN IntCandidates(1, 150)
    ELSE IF f = "upscale_by" THEN NumberCandidates(10, 40)
    ELSE NumberCandidates(0, 10)

\* the calls that pass one argument
ValidationArgs ==
    UNION {{[NoArgs EXCEPT ![f] = v] : v \in Candidates(f)} : f \in SettingsColumns}

\* the key the calls are made for
CallGuild == "g1"
CallUser == "u1"

\* no row, or the row an earlier call made for the key
InitValidate ==
    /\ QueueIdle
    /\ settings_rows \in
           {<<>>, <<GlobalSettings(1, CallGuild, CallUser, TRUE)>>}
    /\ settings_load = NoLoad
    /\ settings_call = [NoCall EXCEPT !.calls = Len(settings_rows)]
    /\ resolution = NoResolution

CreateSettingsOnce ==
    /\ settings_call.op = "none"
    /\ \E args \in ValidationArgs : create_settings(CallGuild, CallUser, args)

UpdateSettingsOnce ==
    /\ settings_call.op = "none"
    /\ \E args \in ValidationArgs : update_settings(CallGuild, CallUser, args)

NextValidate == CreateSettingsOnce \/ UpdateSettingsOnce

SpecValidate == InitValidate /\ [][NextValidate]_vars

\* the most calls made one after another
MaxSettingsCalls == 3

\* the keys the calls are made for: a user's row and the guild's default row
CrudKeys == {<<CallGuild, CallUser>>, <<CallGuild, NULL>>}

\* the arguments of the calls: none, some of the columns, a value that
\* _validate_settings rejects
CrudArgs ==
    {NoArgs,
     [NoArgs EXCEPT !.seed = Num(1)],
     [NoArgs EXCEPT !.seed = Num(2), !.default_model = Text(<<"m">>)],
     [NoArgs EXCEPT !.batch_size = Num(2),
                    !.default_sd_params = [NoSdParams EXCEPT !.steps = Num(30)]],
     [NoArgs EXCEPT !.seed = Num(-2)]}

InitCrud ==
    /\ QueueIdle
    /\ settings_rows = <<>>
    /\ settings_load = NoLoad
    /\ settings_call = NoCall
    /\ resolution = NoResolution

CreateSettings ==
    /\ settings_call.calls < MaxSettingsCalls
    /\ \E key \in CrudKeys, args \in CrudArgs : create_settings(key[1], key[2], args)

UpdateSettings ==
    /\ settings_call.calls < MaxSettingsCalls
    /\ \E key \in CrudKeys, args \in CrudArgs : update_settings(key[1], key[2], args)

DeleteSettings ==
    /\ settings_call.calls < MaxSettingsCalls
    /\ \E key \in CrudKeys : delete_settings(key[1], key[2])

NextCrud == CreateSettings \/ UpdateSettings \/ DeleteSettings

SpecCrud == InitCrud /\ [][NextCrud]_vars

\* the callers that run create_settings or update_settings for the key at
\* the same time, each in a session of its own
NumCallers == 2
Callers == 1..NumCallers

ConcurrentArgs == {[NoArgs EXCEPT !.seed = Num(n)] : n \in Callers}

NoCaller == [pc |-> "idle", args |-> NoArgs, row |-> 0, outcome |-> "none"]

\* no row; every caller is about to call; the worker's settings load of a
\* request of the same user may come at any time
InitConcurrent ==
    /\ QueueIdle
    /\ settings_rows = <<>>
    /\ settings_load = [pc |-> "load", guild_id |-> CallGuild, user_id |-> CallUser,
                        global_settings |-> None]
    /\ settings_call = [op |-> "concurrent", calls |-> 0,
                        caller |-> [c \in Callers |-> NoCaller]]
    /\ resolution = NoResolution

SetCaller(c, rec) ==
    settings_call' = [settings_call EXCEPT !.caller[c] = rec]

\* create_settings is called: up to the await of the SELECT of get_settings
BeginCreate(c) ==
    /\ settings_call.caller[c].pc = "idle"
    /\ \E args \in ConcurrentArgs :
          SetCaller(c, [NoCaller EXCEPT !.pc = "create_select", !.args = args])
    /\ UNCHANGED <<queueVars, settings_rows, settings_load, resolution>>

\* update_settings is called: the validation passes; up to the await of the
\* SELECT of get_settings
BeginUpdate(c) ==
    /\ settings_call.caller[c].pc = "idle"
    /\ \E args \in ConcurrentArgs :
          /\ ~ValidationRaises(args)
          /\ SetCaller(c, [NoCaller EXCEPT !.pc = "update_select", !.args = args])
    /\ UNCHANGED <<queueVars, settings_rows, settings_load, resolution>>

\* the SELECT of create_settings returns: the existing row raises
\* ApplicationError; with no row the new object is added to the session and
\* the commit is awaited
CreateSelect(c) ==
    /\ settings_call.caller[c].pc = "create_select"
    /\ SetCaller(c,
          IF MultipleResultsFound(CallGuild, CallUser)
          THEN [settings_call.caller[c] EXCEPT !.pc = "raised", !.outcome = MultipleResults]
          ELSE IF Selected(CallGuild, CallUser) # {}
                  \/ ValidationRaises(settings_call.caller[c].args)
          THEN [settings_call.caller[c] EXCEPT !.pc = "raised", !.outcome = ApplicationError]
          ELSE [settings_call.caller[c] EXCEPT !.pc = "create_commit"])
    /\ UNCHANGED <<queueVars, settings_rows, settings_load, resolution>>

\* the commit of create_settings: the INSERT (no unique constraint on the
\* key can make it fail)
CreateCommit(c) ==
    /\ settings_call.caller[c].pc = "create_commit"
    /\ settings_rows' =
          Append(settings_rows,
                 [NewRow(CallGuild, CallUser, settings_call.caller[c].args)
                     EXCEPT !.id = Len(settings_rows) + 1])
    /\ SetCaller(c, [settings_call.caller[c] EXCEPT
                        !.pc = "done", !.outcome = Returned,
                        !.row = Len(settings_rows) + 1])
    /\ UNCHANGED <<queueVars, settings_load, resolution>>

\* the SELECT of update_settings returns: the row is changed in the session
\* and the commit is awaited; with no row create_settings is called
UpdateSelect(c) ==
    /\ settings_call.caller[c].pc = "update_select"
    /\ SetCaller(c,
          IF MultipleResultsFound(CallGuild, CallUser)
          THEN [settings_call.caller[c] EXCEPT !.pc = "raised", !.outcome = MultipleResults]
          ELSE IF Selected(CallGuild, CallUser) # {}
          THEN [settings_call.caller[c] EXCEPT
                   !.pc = "update_commit", !.row = TheRow(CallGuild, CallUser)]
          ELSE [settings_call.caller[c] EXCEPT !.pc = "create_select"])
    /\ UNCHANGED <<queueVars, settings_rows, settings_load, resolution>>

\* the commit of update_settings: the UPDATE of the columns that were set
UpdateCommit(c) ==
    /\ settings_call.caller[c].pc = "update_commit"
    /\ settings_rows' =
          [settings_rows EXCEPT
              ![settings_call.caller[c].row] =
                  UpdatedRow(settings_rows[settings_call.caller[c].row],
                             settings_call.caller[c].args)]
    /\ SetCaller(c, [settings_call.caller[c] EXCEPT !.pc = "done", !.outcome = Returned])
    /\ UNCHANGED <<queueVars, settings_load, resolution>>

NextConcurrent ==
    \/ \E c \in Callers : BeginCreate(c)
    \/ \E c \in Callers : BeginUpdate(c)
    \/ \E c \in Callers : CreateSelect(c)
    \/ \E c \in Callers : CreateCommit(c)
    \/ \E c \in Callers : UpdateSelect(c)
    \/ \E c \in Callers : UpdateCommit(c)
    \/ LoadSettings
    \/ LoadSettingsRaises

SpecConcurrent == InitConcurrent /\ [][NextConcurrent]_vars

----------------------------------------------------------------------------
(* Properties                                                              *)

\* the commit of the recovery pass is the step taken
RecoveryCommitStep ==
    \E s \in CallIds : startCall[s].pc = "commit" /\ startCall'[s].pc = "done"

\* worker w pops a task in this step
Pops(w) == worker[w].pc # "get_request" /\ worker'[w].pc = "get_request"

\* the pipeline of worker w is inside its try block
TryPcs == {"commit_processing", "llm", "commit_metadata", "provider",
           "commit_images", "commit_completed"}

\* C1 (as claimed): every change of the status of a persisted request is
\* PENDING -> PROCESSING, PROCESSING -> COMPLETED, PROCESSING -> FAILED or,
\* in the commit of the recovery pass only, PROCESSING -> PENDING; a
\* COMPLETED or FAILED request never changes status again.
C1_Transitions ==
    [][\A r \in RequestIds :
         (status[r] # NOROW /\ status'[r] # status[r]) =>
            \/ status[r] = PENDING /\ status'[r] = PROCESSING
            \/ status[r] = PROCESSING /\ status'[r] \in {COMPLETED, FAILED}
            \/ status[r] = PROCESSING /\ status'[r] = PENDING /\ RecoveryCommitStep]_vars

\* C2 (as claimed): in every reachable state, error_message of a persisted
\* request is non-null if and only if its status is FAILED.
C2_ErrorIffFailed ==
    \A r \in RequestIds : (error_message[r] # NULL) <=> (status[r] = FAILED)

C4_WorkerContinues ==
    /\ [](\A w \in CallIds : worker[w].pc # "ended")
    /\ [][\A w \in CallIds :
             (worker[w].pc = "sleep" /\ worker'[w].pc # "sleep") =>
                worker'[w].pc = IF queue # <<>> THEN "get_request" ELSE "waiting"]_vars
    /\ (worker[worker_task].pc = "sleep") ~> (worker[worker_task].pc # "sleep")

\* C4 witness: a request has FAILED and the same worker is processing
\* another request.
C4_Witness ==
    \E w \in CallIds, r \in RequestIds :
        /\ status[r] = FAILED
        /\ worker[w].pc \in ProcessingPcs \ {"get_request"}
        /\ Rid(w) # r

\* C5: the SELECT of the recovery pass puts exactly one task for every
\* request that is PENDING or PROCESSING and none for any other request,
\* and changes no row; the only changes of status during start() are an
\* admission and PROCESSING -> PENDING in the commit of the recovery pass
\* (COMPLETED and FAILED rows are never modified); when start() has
\* returned no loaded row is PROCESSING.
C5_Recovery ==
    /\ [](\A s \in CallIds :
            startCall[s].pc = "done" => \A r \in RequestIds : status[r] # PROCESSING)
    /\ [][/\ \A s \in CallIds :
               (startCall[s].pc = "select" /\ startCall'[s].pc \in {"commit", "done"}) =>
                  LET active == {r \in RequestIds : status[r] \in {PENDING, PROCESSING}}
                      added == SubSeq(queue', Len(queue) + 1, Len(queue'))
                  IN /\ SubSeq(queue', 1, Len(queue)) = queue
                     /\ Len(added) = Cardinality(active)
                     /\ \A r \in active :
                          \E i \in 1..Len(added) : added[i].request_id = r
                     /\ status' = status
          /\ \A r \in RequestIds :
               (status'[r] # status[r]) =>
                  \/ status[r] = NOROW /\ status'[r] = PENDING
                  \/ status[r] = PROCESSING /\ status'[r] = PENDING
                       /\ RecoveryCommitStep]_vars

\* C5 witness: the recovery pass has loaded a PROCESSING request and put
\* its task while another request is COMPLETED and has no task.
C5_Witness ==
    \E s \in CallIds, r, c \in RequestIds :
        /\ startCall[s].pc = "commit"
        /\ startCall[s].snap[r] = PROCESSING
        /\ status[c] = COMPLETED
        /\ \E i \in 1..Len(queue) : queue[i].request_id = r
        /\ \A i \in 1..Len(queue) : queue[i].request_id # c

\* C6: when a worker pops, no task left waiting in the queue was enqueued
\* with a strictly greater priority than the popped task, whatever the
\* enqueue variants of the tasks are.
C6_PriorityOrder ==
    [][\A w \in CallIds :
         Pops(w) =>
            \A j \in 1..Len(queue') :
               queue'[j].supplied <= worker'[w].task.supplied]_vars

\* C6 witness: a task enqueued with the greater priority has been popped
\* and a task of smaller priority waits.
C6_Witness ==
    \E w \in CallIds :
        /\ worker[w].pc = "get_request"
        /\ queue # <<>>
        /\ queue[1].supplied < worker[w].task.supplied

\* C7 (as claimed): when a worker pops, the popped task is the oldest of
\* the waiting tasks of its priority.
C7_Fifo ==
    [][\A w \in CallIds :
         Pops(w) =>
            \E i \in 1..Len(queue) :
               /\ queue[i] = worker'[w].task
               /\ queue' = Remove(queue, i)
               /\ \A j \in 1..(i - 1) : queue[j].supplied # queue[i].supplied]_vars

\* C8 (as claimed): at most one task is being processed by the manager:
\* no two workers are inside a pipeline at once.
C8_OneTaskProcessed ==
    Cardinality({w \in CallIds : Runs(w) /\ worker[w].pc \in ProcessingPcs}) <= 1

\* C9 (as claimed): a request that was enqueued while its row existed
\* (its task is in the queue) eventually is COMPLETED or FAILED, when no
\* stop() is called and the worker is scheduled fairly.
C9_ReachesTerminal ==
    \A r \in RequestIds :
        (status[r] # NOROW /\ \E i \in 1..Len(queue) : queue[i].request_id = r)
           ~> (status[r] \in {COMPLETED, FAILED})

\* C10 (as claimed): once every enqueued task has been attempted (the
\* queue is empty and no worker is inside a pipeline), the count of
\* unfinished tasks of the queue is zero.
C10_JoinCompletes ==
    (queue = <<>> /\ \A w \in CallIds : worker[w].pc \notin ProcessingPcs)
       => unfinished = 0

\* C11: under start() calls alone (no stop()), a start() call made while
\* is_running is True, also while the first call is inside its recovery
\* pass, does nothing: at most one call ever runs a recovery pass and at
\* most one worker task is ever created.
C11_StartIdempotent ==
    /\ [](Cardinality({s \in CallIds : startCall[s].pc # "none"}) <= 1)
    /\ [](Cardinality({w \in CallIds : worker[w].pc # "none"}) <= 1)
    /\ [][is_running => (is_running' /\ starts' = starts)]_vars

\* C11 witness: the first start() is inside its recovery pass, awaiting the
\* commit, and only the is_running test keeps a further call from starting.
C11_Witness ==
    /\ is_running
    /\ starts < MaxStarts
    /\ \E s \in CallIds : startCall[s].pc = "commit"

\* C12: a stop() call on a manager that is not running (never started, or
\* stopped) changes nothing: is_running stays False, no stop() begins to
\* await or close, no worker is cancelled; and a stop() that awaits a worker
\* idle on the empty queue leads to that worker ended and stop() returned
\* with is_running False.
C12_Stop ==
    /\ [][~is_running =>
             /\ ~is_running'
             /\ \A k \in CallIds :
                   stopCall[k].pc \in {"none", "done"} => stopCall'[k] = stopCall[k]
             /\ \A w \in CallIds : worker'[w].cancel => worker[w].cancel]_vars
    /\ (/\ starts > 0
        /\ stopCall[starts].pc = "await"
        /\ worker[stopCall[starts].target].pc = "waiting")
          ~> (/\ starts > 0
              /\ stopCall[starts].pc = "done"
              /\ ~is_running
              /\ worker[worker_task].pc = "ended")

\* C12 witness: stop() has cancelled a worker that waits on the empty queue
\* and awaits it.
C12_Witness ==
    \E k, w \in CallIds :
        /\ stopCall[k].pc = "await"
        /\ stopCall[k].target = w
        /\ worker[w].pc = "waiting"
        /\ worker[w].cancel
        /\ queue = <<>>

\* C13 (as claimed): a provider call in flight is never cut short by
\* stop(): a worker leaves its provider call only with the result or the
\* error of the call (towards the next step of the pipeline or its
\* handler), never by ending.
C13_ProviderNotCancelled ==
    [][\A w \in CallIds :
         (worker[w].pc = "provider" /\ worker'[w].pc # "provider") =>
            worker'[w].pc # "ended"]_vars

\* worker w begins its provider call in this step
CallsProvider(w) == worker[w].pc # "provider" /\ worker'[w].pc = "provider"

\* this step commits one more GenerationMetadata row for the request of w
InsertsMetadata(w) ==
    /\ worker[w].pc = "commit_metadata"
    /\ metadata'[Rid(w)] = metadata[Rid(w)] + 1

PartialBatchHandled(w) ==
    /\ worker[w].pc = "commit_failed"
    /\ worker[w].saved >= 1
    /\ worker'[w].pc = "sleep"

C16_CompletedHasRows ==
    /\ [](\A r \in RequestIds :
            status[r] = COMPLETED => (metadata[r] >= 1 /\ images[r] >= 1))
    /\ [](\A w \in CallIds :
            worker[w].pc = "commit_completed" =>
               (metadata[Rid(w)] >= 1 /\ images[Rid(w)] >= 1))
    /\ [][/\ \A w \in CallIds :
               (worker[w].pc # "commit_completed" /\ worker'[w].pc = "commit_completed") =>
                  /\ worker[w].pc = "commit_images"
                  /\ worker[w].saved >= 1
                  /\ images'[Rid(w)] = images[Rid(w)] + worker[w].saved
          /\ \A r \in RequestIds :
               (status[r] # COMPLETED /\ status'[r] = COMPLETED) =>
                  \E w \in CallIds : Rid(w) = r /\ worker[w].pc = "commit_completed"]_vars

\* C16 witness: a request is COMPLETED with one metadata row and the image
\* rows of a batch of MaxImages images.
C16_Witness ==
    \E r \in RequestIds :
        /\ status[r] = COMPLETED
        /\ metadata[r] = 1
        /\ images[r] = MaxImages

\* C17 (as claimed): a request that is FAILED is never processed again: no
\* attempt takes a FAILED request to PROCESSING.
C17_FailedNotReprocessed ==
    [][\A r \in RequestIds : ~(status[r] = FAILED /\ status'[r] = PROCESSING)]_vars

\* the task put last
LastPut == queue'[Len(queue')]

\* C18: a task put by enqueue_gemini_generation is dispatched to the Gemini
\* pipeline, one put by enqueue_xai_generation to the xAI pipeline and one
\* put by enqueue_generation to the SD pipeline; after the commit of
\* PROCESSING the SD pipeline goes to the LLM prompt step and reaches its
\* provider call only through the metadata commit that follows it, while
\* the Gemini and xAI pipelines go straight to their provider call and
\* never to the LLM prompt step; the metadata object they build records
\* the original instruction as prompt, steps 0, cfg_scale 0, width 0,
\* height 0 and seed -1.
C18_PipelineByVariant ==
    [][/\ \A r \in RequestIds, p \in Priorities :
            /\ enqueue_generation(r, p) => Pipeline(LastPut) = "sd"
            /\ enqueue_gemini_generation(r, p) => Pipeline(LastPut) = "gemini"
            /\ enqueue_xai_generation(r, p) => Pipeline(LastPut) = "xai"
       /\ \A w \in CallIds :
            /\ (/\ worker[w].pc = "commit_processing"
                /\ worker'[w].pc \notin {"commit_processing", "commit_failed", "ended"})
                  => worker'[w].pc = IF Mode(w) = "sd" THEN "llm" ELSE "provider"
            /\ (worker'[w].pc = "llm") => Pipeline(worker'[w].task) = "sd"
            /\ (CallsProvider(w) /\ Mode(w) = "sd") => worker[w].pc = "commit_metadata"
            /\ (worker'[w].pc = "commit_metadata" /\ Pipeline(worker'[w].task) # "sd") =>
                  /\ worker'[w].meta.prompt = original_instruction(worker'[w].task.request_id)
                  /\ worker'[w].meta.steps = 0
                  /\ worker'[w].meta.cfg_scale = 0
                  /\ worker'[w].meta.width = 0
                  /\ worker'[w].meta.height = 0
                  /\ worker'[w].meta.seed = -1]_vars

\* C18 witness: an xAI task is past its provider call, its metadata row is
\* committed and the request has no row of an LLM-resolved attempt.
C18_Witness ==
    \E w \in CallIds :
        /\ worker[w].task.use_xai
        /\ worker[w].pc = "commit_images"
        /\ worker[w].meta.steps = 0
        /\ metadata[Rid(w)] = 1

\* the fields of a settings bag
BagFields == {"default_model", "default_lora_list", "default_prompt_suffix",
              "default_sd_params", "seed", "batch_size", "batch_count",
              "hires_upscaler", "hires_steps", "denoising_strength", "upscale_by",
              "refiner_checkpoint", "refiner_switch_at"}

\* the rows of the table for a user of a guild (user NULL: the default rows)
RowsOf(g, u) ==
    {i \in DOMAIN settings_rows :
        settings_rows[i].guild_id = g /\ settings_rows[i].user_id = u}

\* bag holds the columns of row i
BagOfRow(bag, i) ==
    /\ bag # None
    /\ \A f \in BagFields : bag[f] = settings_rows[i][f]

\* C19: the settings bag a default-mode pipeline has loaded is the row of
\* the request's user in the request's guild when the table holds one,
\* otherwise the guild's default row (user_id null), otherwise None; when
\* both rows exist, no non-null value of the bag is a value of the default row.
C19_SettingsPrecedence ==
    settings_load.pc = "loaded" =>
        LET g == settings_load.guild_id
            u == settings_load.user_id
            bag == settings_load.global_settings
        IN  /\ RowsOf(g, u) # {} =>
                  /\ \E i \in RowsOf(g, u) : BagOfRow(bag, i)
                  /\ \A j \in RowsOf(g, NULL), f \in BagFields :
                         bag[f] # None => bag[f] # settings_rows[j][f]
            /\ RowsOf(g, u) = {} /\ RowsOf(g, NULL) # {} =>
                  \E j \in RowsOf(g, NULL) : BagOfRow(bag, j)
            /\ RowsOf(g, u) = {} /\ RowsOf(g, NULL) = {} => bag = None

\* a load has selected the bag of a user row with null columns while the
\* guild's default row sets its columns
C19_Witness ==
    /\ settings_load.pc = "loaded"
    /\ \E i \in RowsOf(settings_load.guild_id, settings_load.user_id) :
          settings_rows[i].default_model = None
    /\ \E j \in RowsOf(settings_load.guild_id, NULL) :
          settings_rows[j].default_model # None
    /\ settings_load.global_settings # None

\* a follow-up resolution has returned
FollowUpResolved ==
    /\ resolution.pc = "returned"
    /\ resolution.in.previous_metadata # None

NewResolved ==
    /\ resolution.pc = "returned"
    /\ resolution.in.previous_metadata = None

\* C21: after the resolution of a new request, each of steps, cfg_scale,
\* sampler, scheduler, width and height that default_sd_params of the global
\* settings sets to a non-null value has exactly that value, whatever the LLM
\* result and the research result supply for it.
C21_GlobalSettingsWin ==
    NewResolved /\ resolution.in.global_settings # None =>
        \A k \in _SD_PARAM_KEYS :
            resolution.in.global_settings.default_sd_params[k] # None =>
                resolution.out[k] = resolution.in.global_settings.default_sd_params[k]

\* a new request was resolved for which default_sd_params, the LLM result
\* and the research result each supply a scheduler of their own
C21_Witness ==
    /\ NewResolved
    /\ resolution.in.global_settings # None
    /\ resolution.in.global_settings.default_sd_params.scheduler # None
    /\ resolution.in.result.scheduler # None
    /\ resolution.in.research_result # None
    /\ resolution.in.research_result.recommended_settings.scheduler # None
    /\ resolution.out.scheduler = Val("global", "scheduler")

\* C22: after the resolution of a new request with no global settings and
\* no research result, each of steps, cfg_scale, sampler, scheduler, width
\* and height that the LLM result leaves null equals the application's
\* default for the field, and each one the LLM result supplies equals the
\* LLM's value.
C22_AppDefaultsFill ==
    /\ NewResolved
    /\ resolution.in.global_settings = None
    /\ resolution.in.research_result = None
    => \A k \in _SD_PARAM_KEYS :
          resolution.out[k] =
              IF resolution.in.result[k] # None THEN resolution.in.result[k]
              ELSE resolution.in.settings[k]

\* a new request without global settings and research was resolved: the LLM
\* result left steps and scheduler null and the application configures both
C22_Witness ==
    /\ NewResolved
    /\ resolution.in.global_settings = None
    /\ resolution.in.research_result = None
    /\ resolution.in.result.steps = None
    /\ resolution.in.result.scheduler = None
    /\ resolution.in.settings.scheduler # None
    /\ resolution.out.steps = Val("settings", "steps")
    /\ resolution.out.scheduler = Val("settings", "scheduler")

\* the columns of GenerationMetadata that are not nullable and the resolver
\* supplies
RequiredKeys == {"prompt", "negative_prompt", "steps", "cfg_scale", "sampler",
                 "width", "height", "seed"}

\* C23: under the application's default configuration every call of the
\* resolver returns, and its output has non-null prompt, negative_prompt,
\* steps, cfg_scale, sampler, width, height and seed, whatever the LLM
\* result, the global settings, the previous metadata and the research
\* result are.
C23_OutputComplete ==
    resolution.pc # "none" /\ resolution.in.settings = AppDefaults =>
        /\ resolution.pc # "raised"
        /\ resolution.pc = "returned" =>
              \A k \in RequiredKeys : resolution.out[k] # None

InSeedRange(v) ==
    /\ DOMAIN v = {"hi", "lo"}
    /\ v.hi \in 0..MaxHalf
    /\ v.lo \in 0..MaxHalf

\* C25: the resolved seed is the seed of the global settings whenever that
\* seed is non-null; otherwise, when the result has no seed or the seed -1,
\* the resolved seed is an integer of 0 .. 2^32 - 1.
C25_Seed ==
    resolution.pc = "returned" =>
        IF /\ resolution.in.global_settings # None
           /\ resolution.in.global_settings.seed # None
        THEN resolution.out.seed = resolution.in.global_settings.seed
        ELSE resolution.in.result.seed \in {None, Num(-1)} =>
                InSeedRange(resolution.out.seed)

\* a resolution returned the greatest seed for a result with seed -1 under
\* global settings that set no seed
C25_Witness ==
    /\ resolution.pc = "returned"
    /\ resolution.in.global_settings # None
    /\ resolution.in.global_settings.seed = None
    /\ resolution.in.result.seed = Num(-1)
    /\ resolution.out.seed = Word32(MaxHalf, MaxHalf)

\* the negative prompt after the merge of the sources: the previous one if
\* it is non-empty, else the one of the LLM result
MergedNegativePrompt ==
    IF /\ resolution.in.previous_metadata # None
       /\ resolution.in.previous_metadata.negative_prompt \notin {None, EmptyText}
    THEN resolution.in.previous_metadata.negative_prompt
    ELSE resolution.in.result.negative_prompt

\* C26: the resolved negative_prompt is never null or empty: it is the
\* baseline string when the merged negative prompt is empty or absent, and
\* the merged negative prompt otherwise.
C26_NegativePrompt ==
    resolution.pc = "returned" =>
        /\ resolution.out.negative_prompt \notin {None, EmptyText}
        /\ resolution.out.negative_prompt =
              IF MergedNegativePrompt \in {None, EmptyText}
              THEN BaselineNegativePrompt
              ELSE MergedNegativePrompt

\* a follow-up was resolved whose previous negative prompt is empty and
\* whose LLM result has none: the baseline is substituted
C26_Witness ==
    /\ FollowUpResolved
    /\ resolution.in.previous_metadata.negative_prompt = EmptyText
    /\ resolution.in.result.negative_prompt = None
    /\ resolution.out.negative_prompt = BaselineNegativePrompt

\* the prompt after the merge of the sources: the previous one if it is
\* non-empty, else the one of the LLM result
MergedPrompt ==
    IF /\ resolution.in.previous_metadata # None
       /\ resolution.in.previous_metadata.prompt # EmptyText
    THEN resolution.in.previous_metadata.prompt
    ELSE resolution.in.result.prompt

\* C27: when the global settings have a non-empty default_prompt_suffix,
\* for new and follow-up requests alike, the resolved prompt is the merged
\* prompt if the suffix is a substring of it, and otherwise the merged
\* prompt followed by ", " and the suffix; in both cases the suffix is a
\* substring of the resolved prompt.
C27_PromptSuffix ==
    /\ resolution.pc = "returned"
    /\ resolution.in.global_settings # None
    /\ resolution.in.global_settings.default_prompt_suffix \notin {None, EmptyText}
    => LET suffix == resolution.in.global_settings.default_prompt_suffix
       IN  /\ Contains(MergedPrompt, suffix) => resolution.out.prompt = MergedPrompt
           /\ ~Contains(MergedPrompt, suffix) =>
                 resolution.out.prompt.text =
                     MergedPrompt.text \o <<",", " ">> \o suffix.text
           /\ Contains(resolution.out.prompt, suffix)

\* what the settings contract allows for one argument
NameAllowed(v) == IsStr(v) /\ \E i \in 1..Len(v.text) : v.text[i] # " "
IntAllowed(v, lo, hi) == IsInt(v) /\ lo <= v.int /\ v.int <= hi
NumberAllowed(v, lo, hi) ==
    /\ IsInt(v) \/ DOMAIN v = {"tenths"}
    /\ lo <= Tenths(v)
    /\ Tenths(v) <= hi

OutOfRange(args) ==
    \/ args.default_model # None /\ ~NameAllowed(args.default_model)
    \/ args.hires_upscaler # None /\ ~NameAllowed(args.hires_upscaler)
    \/ args.refiner_checkpoint # None /\ ~NameAllowed(args.refiner_checkpoint)
    \/ args.seed # None /\ ~(IsInt(args.seed) /\ args.seed.int >= -1)
    \/ args.batch_size # None /\ ~IntAllowed(args.batch_size, 1, 8)
    \/ args.batch_count # None /\ ~IntAllowed(args.batch_count, 1, 100)
    \/ args.hires_steps # None /\ ~IntAllowed(args.hires_steps, 1, 150)
    \/ /\ args.default_sd_params # None
       /\ IsDict(args.default_sd_params)
       /\ LET d == args.default_sd_params
          IN  \/ d.steps # None /\ ~IntAllowed(d.steps, 1, 150)
              \/ d.cfg_scale # None /\ ~NumberAllowed(d.cfg_scale, 10, 300)
              \/ d.width # None /\ ~IntAllowed(d.width, 64, 2048)
              \/ d.height # None /\ ~IntAllowed(d.height, 64, 2048)

\* C28: a create_settings or update_settings call that passes an
\* out-of-range or malformed value (steps outside 1..150, cfg_scale outside
\* 1.0..30.0, width or height outside 64..2048, seed below -1, batch_size
\* outside 1..8, batch_count outside 1..100, hires_steps outside 1..150, an
\* empty model, upscaler or checkpoint name) raises ApplicationError.
C28_OutOfRangeRejected ==
    /\ settings_call.op \in {"create", "update"}
    /\ OutOfRange(settings_call.args)
    => settings_call.outcome = ApplicationError

\* C28, the other half: a call that raises ApplicationError creates no row
\* and leaves every existing row as it was
C28_RejectedChangesNothing ==
    [][settings_call'.op \in {"create", "update"}
       /\ settings_call'.outcome = ApplicationError
       => settings_rows' = settings_rows]_vars

\* the positions of the rows of a key in a table
RowsOfKey(rows, g, u) ==
    {i \in DOMAIN rows : rows[i].guild_id = g /\ rows[i].user_id = u}

\* the rows of every other key, in their order
OtherRows(rows, g, u) ==
    SelectSeq(rows, LAMBDA row : ~(row.guild_id = g /\ row.user_id = u))

\* C29: for one (guild_id, user_id) key and calls made one after another:
\* update_settings with acceptable values creates the row when the key has
\* none and otherwise keeps the row and its id, sets exactly the columns
\* passed non-null and leaves every other column; create_settings on a key
\* that has a row raises ApplicationError and leaves the row unchanged;
\* delete_settings returns true and removes the row if there was one and
\* returns false otherwise. The rows of other keys are never touched.
C29_SettingsCrud ==
    [][LET c == settings_call'
           g == c.guild_id
           u == c.user_id
           before == RowsOfKey(settings_rows, g, u)
           after == RowsOfKey(settings_rows', g, u)
       IN  /\ Cardinality(before) <= 1
           /\ OtherRows(settings_rows', g, u) = OtherRows(settings_rows, g, u)
           /\ c.op = "update" /\ ~OutOfRange(c.args) /\ before = {} =>
                  /\ c.outcome = Returned
                  /\ Cardinality(after) = 1
                  /\ \A i \in after : \A f \in SettingsColumns :
                         settings_rows'[i][f] = c.args[f]
           /\ c.op = "update" /\ ~OutOfRange(c.args) /\ before # {} =>
                  /\ c.outcome = Returned
                  /\ Len(settings_rows') = Len(settings_rows)
                  /\ after = before
                  /\ \A i \in before :
                         /\ settings_rows'[i].id = settings_rows[i].id
                         /\ \A f \in SettingsColumns :
                                settings_rows'[i][f] =
                                    IF c.args[f] # None THEN c.args[f]
                                    ELSE settings_rows[i][f]
           /\ c.op = "create" /\ before # {} =>
                  /\ c.outcome = ApplicationError
                  /\ settings_rows' = settings_rows
           /\ c.op = "delete" /\ before # {} =>
                  /\ c.outcome = Returned
                  /\ c.result = TRUE
                  /\ after = {}
           /\ c.op = "delete" /\ before = {} =>
                  /\ c.outcome = Returned
                  /\ c.result = FALSE
                  /\ settings_rows' = settings_rows]_vars

\* an update has changed some columns of a row an earlier call made and has
\* left a column of it that was set, and the guild's other row, as they were
C29_Witness ==
    /\ settings_call.op = "update"
    /\ settings_call.outcome = Returned
    /\ Len(settings_rows) = 2
    /\ \E i \in RowsOfKey(settings_rows, settings_call.guild_id, settings_call.user_id) :
           /\ settings_rows[i].id < settings_call.calls
           /\ \E f \in SettingsColumns :
                  settings_call.args[f] # None /\ settings_rows[i][f] = settings_call.args[f]
           /\ \E f \in SettingsColumns :
                  settings_call.args[f] = None /\ settings_rows[i][f] # None

\* C30 (as claimed): within one process lifetime, under any sequence of
\* admissions (the row is created, then one task is enqueued), start(),
\* stop() and a later start() on the same manager, the queue never holds
\* two tasks for the same request id.
C30_NoDuplicateTasks ==
    \A i, j \in DOMAIN queue :
        i # j => queue[i].request_id # queue[j].request_id

\* C30 (as claimed), the worker's side: no request's pipeline is run a
\* second time: a request whose attempt has ended is never taken to
\* PROCESSING again.
C30_NoSecondRun ==
    [][\A r \in RequestIds :
          ~(status[r] \in {COMPLETED, FAILED} /\ status'[r] = PROCESSING)]_vars

\* the tasks of request r that wait in the queue or are held by a worker
TasksOf(r) ==
    {queue[i] : i \in {j \in DOMAIN queue : queue[j].request_id = r}}
        \cup {worker[w].task : w \in {v \in CallIds : Live(v) /\ Rid(v) = r}}

\* C31 (as claimed): a request admitted through enqueue_gemini_generation or
\* enqueue_xai_generation is only ever processed by that provider's
\* pipeline, also when start() recovery re-enqueues it: every task of a
\* request that has a Gemini or xAI task, waiting or being processed, is a
\* task for that same pipeline.
C31_ProviderKept ==
    \A r \in RequestIds :
        \A t, u \in TasksOf(r) :
            Pipeline(t) # "sd" => Pipeline(u) = Pipeline(t)

\* C32 (as claimed): after any sequence of operations, including an
\* interruption after the metadata commit followed by start() recovery and
\* re-processing, each request has at most one GenerationMetadata row.
C32_OneMetadataRow ==
    \A r \in RequestIds : metadata[r] <= 1

\* the settings load, the LLM call or the provider call of worker w is in
\* flight: the pipeline is suspended in it and has not been cancelled
InFlight(w) == Runs(w) /\ worker[w].pc \in {"llm", "provider"}

\* C33 (as claimed): whenever the settings load, the LLM call or the provider call of a
\* request is in flight, the persisted status of that request is
\* PROCESSING: the PROCESSING commit precedes them, and no COMPLETED or
\* FAILED is committed before the call has returned or raised.
C33_ProcessingWhileInFlight ==
    \A w \in CallIds : InFlight(w) => status[Rid(w)] = PROCESSING

\* the value the request sent to the SD server holds for a metadata column
SentValue(k) ==
    IF k = "sampler" THEN resolution.request.sampler_name
    ELSE resolution.request[k]

\* C34 (as claimed): in default mode the values passed to the SD provider
\* call for prompt, negative prompt, steps, cfg_scale, sampler, scheduler,
\* seed, width and height are exactly the values recorded in the request's
\* GenerationMetadata row.
C34_MetadataIsWhatWasSent ==
    resolution.pc = "sent" =>
        \A k \in MetadataColumns : SentValue(k) = resolution.metadata[k]

\* C35 (as claimed): after the resolution of a new request with a research
\* result, each of steps, cfg_scale, sampler, scheduler, width and height
\* that the LLM result leaves null, that the global settings do not set and
\* for which the research result recommends a value has the recommended
\* value, whatever the application's default for it is.
C35_ResearchBeforeAppDefault ==
    NewResolved /\ resolution.in.research_result # None =>
        \A k \in _SD_PARAM_KEYS :
            /\ resolution.in.result[k] = None
            /\ \/ resolution.in.global_settings = None
               \/ resolution.in.global_settings.default_sd_params[k] = None
            /\ resolution.in.research_result.recommended_settings[k] # None
            => resolution.out[k] = resolution.in.research_result.recommended_settings[k]

\* C35 under the default configuration, where the application has no
\* default sampler and no default scheduler: the recommendation is taken
\* for these two keys
C35_ResearchFillsUnconfigured ==
    NewResolved /\ resolution.in.research_result # None =>
        \A k \in {"sampler", "scheduler"} :
            /\ resolution.in.settings[k] = None
            /\ resolution.in.result[k] = None
            /\ \/ resolution.in.global_settings = None
               \/ resolution.in.global_settings.default_sd_params[k] = None
            /\ resolution.in.research_result.recommended_settings[k] # None
            => resolution.out[k] = resolution.in.research_result.recommended_settings[k]

\* C36: research_best_practices is called only when the web_research flag
\* is true, the request is not a follow-up and the instruction contains none
\* of the skip keywords; the research step never ends the generation: when
\* the research call raises, the generation goes on to the LLM call without
\* a research result, and only the LLM call can make generate_prompt raise.
C36_WebResearch ==
    /\ [](resolution.pc \in {"chat", "returned", "raised"} =>
            /\ resolution.attempted =>
                  /\ resolution.call.web_research
                  /\ resolution.call.previous_metadata = None
                  /\ \A keyword \in WEB_RESEARCH_SKIP_KEYWORDS :
                         ~Contains(resolution.call.user_instruction, keyword)
            /\ resolution.research_raised => resolution.research_result = None)
    /\ [][resolution.pc = "research" => resolution'.pc = "chat"]_vars

\* a generation whose research call raised has returned its result, resolved
\* as without research
C36_Witness ==
    /\ resolution.pc = "returned"
    /\ resolution.attempted
    /\ resolution.research_raised
    /\ resolution.call.user_instruction = Text(<<"r", "x">>)
    /\ resolution.out.steps = AppDefaults.steps

\* C37 (as claimed): a client owned by the manager is never invoked after
\* stop() has closed it: no pipeline begins its LLM call when the prompt
\* agent's client is closed, and no default-mode pipeline begins its
\* provider call when the SD client is closed.
C37_ClientsUsable ==
    [][\A w \in CallIds :
          /\ worker[w].pc # "llm" /\ worker'[w].pc = "llm" =>
                 "prompt_agent" \notin clients_closed
          /\ worker[w].pc # "provider" /\ worker'[w].pc = "provider"
                 /\ Pipeline(worker'[w].task) = "sd" =>
                 "sd_client" \notin clients_closed]_vars

\* C38 (as claimed): under any interleaving of concurrent create_settings
\* and update_settings calls for the same (guild_id, user_id), at most one
\* settings row of that key ever exists, no get_settings raises
\* MultipleResultsFound and the worker's settings load does not raise.
C38_OneRowPerKey ==
    /\ Cardinality(RowsOfKey(settings_rows, CallGuild, CallUser)) <= 1
    /\ \A c \in Callers : settings_call.caller[c].outcome # MultipleResults
    /\ settings_load.pc # "raised"

\* C39: a task whose request row does not exist raises before any persisted
\* state is changed: the step of the worker that finds no row changes no
\* request, metadata or image row and calls no provider, it begins the
\* back-off sleep; the step that ends the sleep takes the next task of the
\* queue, or waits for one.
C39_MissingRowStep(w) ==
    /\ Runs(w)
    /\ worker[w].pc = "get_request"
    /\ status[Rid(w)] = NOROW
    /\ worker'[w] # worker[w]

C39_SleepEnds(w) ==
    /\ Runs(w)
    /\ worker[w].pc = "sleep"
    /\ is_running
    /\ worker'[w] # worker[w]

C39_MissingRowRaisesFirst ==
    [][\A w \in CallIds :
          /\ C39_MissingRowStep(w) =>
                /\ UNCHANGED <<status, error_message, metadata, images>>
                /\ worker'[w].pc = "sleep"
          /\ C39_SleepEnds(w) =>
                IF queue = <<>>
                THEN worker'[w].pc = "waiting"
                ELSE /\ worker'[w].pc = "get_request"
                     /\ worker'[w].task = queue[PopIdx(queue)]
                     /\ queue' = Remove(queue, PopIdx(queue))]_vars

\* the worker sleeps after the task of a request without a row, nothing is
\* persisted, and the next task waits in the queue
C39_Witness ==
    \E w \in CallIds :
        /\ Runs(w)
        /\ worker[w].pc = "sleep"
        /\ status[Rid(w)] = NOROW
        /\ metadata[Rid(w)] = 0
        /\ images[Rid(w)] = 0
        /\ error_message[Rid(w)] = NULL
        /\ queue # <<>>

====
